---------------------------- MODULE Spec2Model ----------------------------
(***************************************************************************)
(* A model of go-validot: the Validator (NewValidator, ValidateDotEnv),    *)
(* its built-in validation plugins and the CacheSizeValidationPlugin of    *)
(* the test suite.                                                         *)
(*                                                                         *)
(* Go strings that the code only compares for equality (keys, plugin       *)
(* names, message literals) are TLA+ strings.  Values of the .env file,    *)
(* which the plugins trim, fold, split and parse, are sequences of         *)
(* one-character strings, so that those conversions are computed.          *)
(***************************************************************************)
EXTENDS Integers, Sequences, FiniteSets, TLC

(***************************************************************************)
(* Bounds of the model.                                                    *)
(***************************************************************************)
\* the largest number of entries of a loaded .env mapping
MaxEntries == 2
\* the largest number of required keys handed to NewValidator
MaxRequired == 2

\* F applied to the value of v: v is evaluated once, as the right-hand
\* side of a Go assignment is, however often F uses it
With(v, F(_)) == CHOOSE r \in {F(y) : y \in {v}} : TRUE

(***************************************************************************)
(* Text: strings.ToLower, strings.TrimSpace, strings.EqualFold,            *)
(* strconv.Atoi as the plugins use them.                                   *)
(***************************************************************************)
UpperLetters == <<"A", "B", "C", "D", "E", "F", "G", "H", "I", "J", "K", "L", "M",
                  "N", "O", "P", "Q", "R", "S", "T", "U", "V", "W", "X", "Y", "Z">>
LowerLetters == <<"a", "b", "c", "d", "e", "f", "g", "h", "i", "j", "k", "l", "m",
                  "n", "o", "p", "q", "r", "s", "t", "u", "v", "w", "x", "y", "z">>
Digits == <<"0", "1", "2", "3", "4", "5", "6", "7", "8", "9">>
HexLower == <<"a", "b", "c", "d", "e", "f">>
HexUpper == <<"A", "B", "C", "D", "E", "F">>
\* the characters unicode.IsSpace accepts that a value can hold here
WhiteSpace == {" ", "\t", "\n", "\r", "\f"}

IndexIn(c, table) ==
    IF \E i \in DOMAIN table : table[i] = c
    THEN CHOOSE i \in DOMAIN table : table[i] = c
    ELSE 0

IsLetter(c) == IndexIn(c, UpperLetters) > 0 \/ IndexIn(c, LowerLetters) > 0
IsDigit(c) == IndexIn(c, Digits) > 0
DigitVal(c) == IndexIn(c, Digits) - 1

LowerChar(c) ==
    IF IndexIn(c, UpperLetters) > 0 THEN LowerLetters[IndexIn(c, UpperLetters)] ELSE c

ToLower(s) == [i \in 1..Len(s) |-> LowerChar(s[i])]

RECURSIVE TrimLeft(_)
TrimLeft(s) ==
    IF s # <<>> /\ Head(s) \in WhiteSpace THEN TrimLeft(Tail(s)) ELSE s

RECURSIVE TrimRight(_)
TrimRight(s) ==
    IF s # <<>> /\ s[Len(s)] \in WhiteSpace
    THEN With(SubSeq(s, 1, Len(s) - 1), LAMBDA t : TrimRight(t))
    ELSE s

TrimSpace(s) == With(TrimLeft(s), LAMBDA t : TrimRight(t))

\* strings.EqualFold on the letters of this model (ASCII): equal up to case
EqualFold(s, t) == ToLower(s) = ToLower(t)

HasPrefix(s, p) == Len(s) >= Len(p) /\ SubSeq(s, 1, Len(p)) = p

\* the first position of character c in s, 0 when there is none
IndexByte(s, c) ==
    IF \E i \in 1..Len(s) : s[i] = c
    THEN CHOOSE i \in 1..Len(s) : s[i] = c /\ \A j \in 1..(i - 1) : s[j] # c
    ELSE 0

\* the last position of character c in s, 0 when there is none
LastIndexByte(s, c) ==
    IF \E i \in 1..Len(s) : s[i] = c
    THEN CHOOSE i \in 1..Len(s) : s[i] = c /\ \A j \in (i + 1)..Len(s) : s[j] # c
    ELSE 0

RECURSIVE DecimalValue(_)
DecimalValue(s) ==
    IF s = <<>> THEN 0
    ELSE 10 * With(SubSeq(s, 1, Len(s) - 1), LAMBDA t : DecimalValue(t))
             + DigitVal(s[Len(s)])

AllDigits(s) == \A i \in 1..Len(s) : IsDigit(s[i])

\* strconv.Atoi: an optional sign and at least one decimal digit
Atoi(s) ==
    LET signed == s # <<>> /\ Head(s) \in {"+", "-"}
    IN With(IF signed THEN Tail(s) ELSE s, LAMBDA body :
           IF body = <<>> \/ ~AllDigits(body)
           THEN [ok |-> FALSE, n |-> 0]
           ELSE [ok |-> TRUE,
                 n |-> IF signed /\ Head(s) = "-" THEN 0 - DecimalValue(body)
                       ELSE DecimalValue(body)])

(***************************************************************************)
(* Errors.  A Go error is nil or carries a message; the message is kept    *)
(* as the pieces fmt.Errorf puts together: the literal text and the        *)
(* substituted %q keys in `text`, a substituted %v list of values in       *)
(* `list` and a substituted %v list of keys in `keys`.                     *)
(***************************************************************************)
NilError == [isNil |-> TRUE, text |-> <<>>, list |-> <<>>, keys |-> <<>>]
Errorf(text, list, keys) == [isNil |-> FALSE, text |-> text, list |-> list, keys |-> keys]

\* err.Error() contains s as one of the pieces it was formatted from
Contains(err, s) == \E i \in DOMAIN err.text : err.text[i] = s


(***************************************************************************)
(* net.ParseIP and the net.IP / net.IPNet methods the IP plugin calls.     *)
(* A parsed address is its 16-byte form (an IPv4 address is stored         *)
(* IPv4-in-IPv6, as net.ParseIP returns it); NoIP stands for a nil IP.     *)
(***************************************************************************)
NoIP == <<>>

\* strings.Split at character c; s is a value, not an expression
RECURSIVE Split(_, _)
Split(s, c) ==
    With(IndexByte(s, c), LAMBDA i :
        IF i = 0 THEN <<s>>
        ELSE <<SubSeq(s, 1, i - 1)>>
                 \o With(SubSeq(s, i + 1, Len(s)), LAMBDA t : Split(t, c)))

\* one dotted-decimal field: digits only, no leading zero, at most 255
IPv4FieldOk(f) ==
    /\ f # <<>>
    /\ AllDigits(f)
    /\ (Len(f) > 1 => f[1] # "0")
    /\ Len(f) <= 3
    /\ DecimalValue(f) <= 255

\* the four bytes of a dotted-decimal address, <<>> when s is none
ParseIPv4Fields(s) ==
    With(Split(s, "."), LAMBDA fs :
        IF Len(fs) = 4 /\ \A i \in 1..4 : IPv4FieldOk(fs[i])
        THEN [i \in 1..4 |-> DecimalValue(fs[i])]
        ELSE <<>>)

V4InV6Prefix == <<0, 0, 0, 0, 0, 0, 0, 0, 0, 0, 255, 255>>

ParseIPv4(s) ==
    With(ParseIPv4Fields(s), LAMBDA b : IF b = <<>> THEN NoIP ELSE V4InV6Prefix \o b)

HexVal(c) ==
    IF IsDigit(c) THEN DigitVal(c)
    ELSE IF IndexIn(c, HexLower) > 0 THEN 9 + IndexIn(c, HexLower)
    ELSE IF IndexIn(c, HexUpper) > 0 THEN 9 + IndexIn(c, HexUpper)
    ELSE 0 - 1

\* the number of leading hexadecimal digits of s
RECURSIVE HexRun(_)
HexRun(s) ==
    IF s # <<>> /\ HexVal(Head(s)) >= 0 THEN 1 + HexRun(Tail(s)) ELSE 0

RECURSIVE HexValue(_)
HexValue(s) ==
    IF s = <<>> THEN 0
    ELSE 16 * With(SubSeq(s, 1, Len(s) - 1), LAMBDA t : HexValue(t)) + HexVal(s[Len(s)])

Zeros(n) == [i \in 1..n |-> 0]

\* the loop of the IPv6 parser: out holds the bytes stored so far, ellipsis
\* the byte offset of "::" (-1 when none was met); s and out are values
RECURSIVE ParseIPv6Loop(_, _, _)
ParseIPv6Group(s, out, ellipsis, off) ==
    LET i == Len(out)
        fail == [ok |-> FALSE, out |-> out, ellipsis |-> ellipsis, rest |-> s]
    IN IF off = 0 \/ off > 4 THEN fail
       ELSE IF off < Len(s) /\ s[off + 1] = "."
       THEN With(ParseIPv4Fields(s), LAMBDA b :
                IF (ellipsis < 0 /\ i # 12) \/ i + 4 > 16 \/ b = <<>>
                THEN fail
                ELSE [ok |-> TRUE, out |-> out \o b, ellipsis |-> ellipsis,
                      rest |-> <<>>])
       ELSE With(<<out \o <<HexValue(SubSeq(s, 1, off)) \div 256,
                            HexValue(SubSeq(s, 1, off)) % 256>>,
                   SubSeq(s, off + 1, Len(s))>>, LAMBDA t :
                \* t[1]: the bytes with this group stored, t[2]: what follows it
                IF t[2] = <<>>
                THEN [ok |-> TRUE, out |-> t[1], ellipsis |-> ellipsis, rest |-> <<>>]
                ELSE IF t[2][1] # ":" \/ Len(t[2]) = 1 THEN fail
                ELSE IF t[2][2] = ":"
                THEN IF ellipsis >= 0 THEN fail
                     ELSE IF Len(t[2]) = 2
                     THEN [ok |-> TRUE, out |-> t[1], ellipsis |-> Len(t[1]),
                           rest |-> <<>>]
                     ELSE With(SubSeq(t[2], 3, Len(t[2])), LAMBDA u :
                              ParseIPv6Loop(u, t[1], Len(t[1])))
                ELSE With(Tail(t[2]), LAMBDA u : ParseIPv6Loop(u, t[1], ellipsis)))

ParseIPv6Loop(s, out, ellipsis) ==
    IF Len(out) >= 16 THEN [ok |-> TRUE, out |-> out, ellipsis |-> ellipsis, rest |-> s]
    ELSE With(HexRun(s), LAMBDA off : ParseIPv6Group(s, out, ellipsis, off))

\* the bytes the loop produced, with the zeros "::" stands for put in
ParseIPv6Expand(r) ==
    LET n == Len(r.out)
    IN IF ~r.ok \/ r.rest # <<>> THEN NoIP
       ELSE IF n < 16
       THEN IF r.ellipsis < 0 THEN NoIP
            ELSE SubSeq(r.out, 1, r.ellipsis) \o Zeros(16 - n)
                 \o SubSeq(r.out, r.ellipsis + 1, n)
       ELSE IF r.ellipsis >= 0 THEN NoIP
       ELSE r.out

ParseIPv6(s) ==
    IF IndexByte(s, "%") > 0 THEN NoIP
    ELSE IF s = <<":", ":">> THEN Zeros(16)
    ELSE IF HasPrefix(s, <<":", ":">>)
    THEN With(ParseIPv6Loop(SubSeq(s, 3, Len(s)), <<>>, 0), LAMBDA r : ParseIPv6Expand(r))
    ELSE With(ParseIPv6Loop(s, <<>>, 0 - 1), LAMBDA r : ParseIPv6Expand(r))

\* net.ParseIP: the first '.' or ':' of s decides the family that is parsed
ParseIPValue(s) ==
    LET dot == IndexByte(s, ".")
        colon == IndexByte(s, ":")
    IN IF IndexByte(s, "%") > 0 THEN NoIP
       ELSE IF dot > 0 /\ (colon = 0 \/ dot < colon) THEN ParseIPv4(s)
       ELSE IF colon > 0 THEN ParseIPv6(s)
       ELSE NoIP

ParseIP(s) == With(s, LAMBDA t : ParseIPValue(t))

\* ip.To4() != nil: the address is IPv4 or IPv4-mapped
To4(ip) == ip # NoIP /\ SubSeq(ip, 1, 12) = V4InV6Prefix
\* ip.To16() != nil
To16(ip) == ip # NoIP /\ Len(ip) = 16

\* byte b with all but its `bits` leading bits cleared
RECURSIVE Pow2(_)
Pow2(n) == IF n = 0 THEN 1 ELSE 2 * Pow2(n - 1)
MaskByte(b, bits) == b - (b % Pow2(8 - bits))
\* the number of mask bits that fall on byte i (1-based) of a /ones mask
MaskBits(ones, i) ==
    IF ones >= 8 * i THEN 8 ELSE IF ones <= 8 * (i - 1) THEN 0 ELSE ones - 8 * (i - 1)

\* (*net.IPNet).Contains for the block base/ones: an IPv4 block looks at
\* the four bytes of To4 and holds no address that has none
IPNetContains(base, ones, ip) ==
    LET x == IF To4(ip) THEN SubSeq(ip, 13, 16) ELSE ip
    IN /\ Len(x) = Len(base)
       /\ \A i \in 1..Len(x) : MaskByte(x[i], MaskBits(ones, i)) = base[i]

PrivateIPBlocks ==
    << [base |-> <<10, 0, 0, 0>>, ones |-> 8],
       [base |-> <<172, 16, 0, 0>>, ones |-> 12],
       [base |-> <<192, 168, 0, 0>>, ones |-> 16],
       [base |-> Zeros(15) \o <<1>>, ones |-> 128],
       [base |-> <<252>> \o Zeros(15), ones |-> 7] >>

\* a variant of isPrivateIP with a defect: the second block is
\* 172.16.0.0/16
isPrivateIP_Slash16(ip) ==
    \E i \in DOMAIN PrivateIPBlocks :
        IPNetContains(PrivateIPBlocks[i].base,
                      IF i = 2 THEN 16 ELSE PrivateIPBlocks[i].ones, ip)

\* lines 130-151
isPrivateIP(ip) ==
    \E i \in DOMAIN PrivateIPBlocks :
        IPNetContains(PrivateIPBlocks[i].base, PrivateIPBlocks[i].ones, ip)

(***************************************************************************)
(* url.Parse, as far as the URL plugin looks at its result: whether it     *)
(* fails, and the Scheme and Host of the parsed URL.                       *)
(***************************************************************************)
\* bytes below 0x20 (and 0x7f) that a value can hold here
ControlBytes == {"\t", "\n", "\r", "\f"}
\* ASCII bytes url.Parse refuses in a host outside a percent escape
InvalidHostBytes == {" ", "/", "?", "#", "@", "\\", "^", "{", "|", "}"}
\* the bytes validUserinfo accepts besides letters and digits
UserinfoBytes == {"-", ".", "_", ":", "~", "!", "$", "&", "'", "(", ")", "*", "+",
                  ",", ";", "=", "%", "@"}

\* getScheme: [ok, scheme, rest]; no scheme when the text before the first
\* ':' is not a letter followed by letters, digits, '+', '-' or '.'
RECURSIVE getSchemeFrom(_, _)
getSchemeFrom(raw, i) ==
    IF i > Len(raw) THEN [ok |-> TRUE, scheme |-> <<>>, rest |-> raw]
    ELSE IF IsLetter(raw[i]) THEN getSchemeFrom(raw, i + 1)
    ELSE IF IsDigit(raw[i]) \/ raw[i] \in {"+", "-", "."}
    THEN IF i = 1 THEN [ok |-> TRUE, scheme |-> <<>>, rest |-> raw]
         ELSE getSchemeFrom(raw, i + 1)
    ELSE IF raw[i] = ":"
    THEN IF i = 1 THEN [ok |-> FALSE, scheme |-> <<>>, rest |-> <<>>]
         ELSE [ok |-> TRUE, scheme |-> SubSeq(raw, 1, i - 1),
               rest |-> SubSeq(raw, i + 1, Len(raw))]
    ELSE [ok |-> TRUE, scheme |-> <<>>, rest |-> raw]

getScheme(raw) == getSchemeFrom(raw, 1)

\* every '%' of s starts a percent escape of two hexadecimal digits; in a
\* host an escape of an ASCII byte other than %25 is refused as well
EscapesOk(s, inHost) ==
    \A i \in 1..Len(s) :
        s[i] = "%" =>
            /\ i + 2 <= Len(s)
            /\ HexVal(s[i + 1]) >= 0
            /\ HexVal(s[i + 2]) >= 0
            /\ (inHost => HexVal(s[i + 1]) >= 8 \/ (s[i + 1] = "2" /\ s[i + 2] = "5"))

\* validOptionalPort: nothing, or ':' and digits only
validOptionalPort(port) ==
    port = <<>> \/ (Head(port) = ":" /\ AllDigits(Tail(port)))

\* parseHost: the host is refused for a bad port, a '[' without ']', a bad
\* escape or a byte a host cannot hold
parseHostOk(host) ==
    /\ IF HasPrefix(host, <<"[">>)
       THEN /\ LastIndexByte(host, "]") > 0
            /\ validOptionalPort(SubSeq(host, LastIndexByte(host, "]") + 1, Len(host)))
       ELSE LastIndexByte(host, ":") > 0
                => validOptionalPort(SubSeq(host, LastIndexByte(host, ":"), Len(host)))
    /\ EscapesOk(host, TRUE)
    /\ \A i \in 1..Len(host) : host[i] \notin InvalidHostBytes

validUserinfo(u) ==
    \A i \in 1..Len(u) : IsLetter(u[i]) \/ IsDigit(u[i]) \/ u[i] \in UserinfoBytes

URLFailed == [ok |-> FALSE, Scheme |-> <<>>, Host |-> <<>>]

\* parseAuthority: the host is what follows the last '@' of the authority
parseAuthority(scheme, authority, path) ==
    With(LastIndexByte(authority, "@"), LAMBDA at :
        With(SubSeq(authority, at + 1, Len(authority)), LAMBDA host :
            IF \/ at > 0 /\ ~With(SubSeq(authority, 1, at - 1), LAMBDA u : validUserinfo(u))
               \/ ~parseHostOk(host)
               \/ ~EscapesOk(path, FALSE)
            THEN URLFailed
            ELSE [ok |-> TRUE, Scheme |-> scheme, Host |-> host]))

\* the URL after its scheme, without query and fragment
parseRest(scheme, rest) ==
    IF ~HasPrefix(rest, <<"/">>)
    THEN \* an opaque or relative URL: no host (a relative one whose first
         \* segment holds ':' fails instead, with no host either)
         IF scheme = <<>> /\ IndexByte(rest, ":") > 0
             /\ (IndexByte(rest, "/") = 0 \/ IndexByte(rest, ":") < IndexByte(rest, "/"))
         THEN URLFailed
         ELSE [ok |-> TRUE, Scheme |-> scheme, Host |-> <<>>]
    ELSE IF HasPrefix(rest, <<"/", "/">>)
            /\ (scheme # <<>> \/ ~HasPrefix(rest, <<"/", "/", "/">>))
    THEN With(SubSeq(rest, 3, Len(rest)), LAMBDA a :
             With(IndexByte(a, "/"), LAMBDA slash :
                 IF slash > 0
                 THEN With(<<SubSeq(a, 1, slash - 1), SubSeq(a, slash, Len(a))>>,
                           LAMBDA t : parseAuthority(scheme, t[1], t[2]))
                 ELSE parseAuthority(scheme, a, <<>>)))
    ELSE IF ~EscapesOk(rest, FALSE) THEN URLFailed
    ELSE [ok |-> TRUE, Scheme |-> scheme, Host |-> <<>>]

\* url.Parse(raw) of a value raw: [ok, Scheme, Host]
ParseURLValue(raw) ==
    IF \E i \in 1..Len(raw) : raw[i] \in ControlBytes THEN URLFailed
    ELSE With(IndexByte(raw, "#"), LAMBDA hash :
        IF hash > 0 /\ ~With(SubSeq(raw, hash + 1, Len(raw)), LAMBDA f : EscapesOk(f, FALSE))
        THEN URLFailed
        ELSE With(IF hash > 0 THEN getScheme(SubSeq(raw, 1, hash - 1)) ELSE getScheme(raw),
                  LAMBDA sch :
            IF ~sch.ok THEN URLFailed
            ELSE With(<<ToLower(sch.scheme),
                        IF IndexByte(sch.rest, "?") > 0
                        THEN SubSeq(sch.rest, 1, IndexByte(sch.rest, "?") - 1)
                        ELSE sch.rest>>,
                      LAMBDA t : parseRest(t[1], t[2]))))

ParseURL(raw) == With(raw, LAMBDA t : ParseURLValue(t))

(***************************************************************************)
(* Values and parameter lists of the plugins, as character sequences.      *)
(***************************************************************************)
S_https == <<"h", "t", "t", "p", "s">>
S_DEVELOPMENT == <<"D", "E", "V", "E", "L", "O", "P", "M", "E", "N", "T">>
S_STAGING == <<"S", "T", "A", "G", "I", "N", "G">>
S_PRODUCTION == <<"P", "R", "O", "D", "U", "C", "T", "I", "O", "N">>
S_true == <<"t", "r", "u", "e">>
S_false == <<"f", "a", "l", "s", "e">>
S_1 == <<"1">>
S_0 == <<"0">>
S_yes == <<"y", "e", "s">>
S_no == <<"n", "o">>
S_IPv4 == <<"I", "P", "v", "4">>
S_IPv6 == <<"I", "P", "v", "6">>
S_ipv4 == <<"i", "p", "v", "4">>
S_ipv6 == <<"i", "p", "v", "6">>

(***************************************************************************)
(* The plugins.  A plugin is a record of its type and its fields;          *)
(* Validate returns the pair (handled, err) of the Go method.              *)
(***************************************************************************)
NotHandled == [handled |-> FALSE, err |-> NilError]
Accepted == [handled |-> TRUE, err |-> NilError]
Rejected(err) == [handled |-> TRUE, err |-> err]

\* a variant of BooleanValidate with a defect: the value is not trimmed
BooleanValidate_NoTrim(p, key, value) ==
    IF key # p.Key THEN NotHandled
    ELSE With(ToLower(value), LAMBDA normalizedValue :
             LET valid == \E i \in DOMAIN p.AcceptedValues :
                              normalizedValue = ToLower(p.AcceptedValues[i])
             IN IF ~valid
                THEN Rejected(Errorf(<<"value for key ", key,
                                       " must be a boolean (accepted values: ", "%v", ")">>,
                                     p.AcceptedValues, <<>>))
                ELSE Accepted)

\* a variant of BooleanValidate with a defect: the key is not compared
\* with p.Key
BooleanValidate_AnyKey(p, key, value) ==
    With(ToLower(TrimSpace(value)), LAMBDA normalizedValue :
        LET valid == \E i \in DOMAIN p.AcceptedValues :
                         normalizedValue = ToLower(p.AcceptedValues[i])
        IN IF ~valid
           THEN Rejected(Errorf(<<"value for key ", key,
                                  " must be a boolean (accepted values: ", "%v", ")">>,
                                p.AcceptedValues, <<>>))
           ELSE Accepted)

\* lines 27-50
BooleanValidate(p, key, value) ==
    IF key # p.Key THEN NotHandled
    ELSE With(ToLower(TrimSpace(value)), LAMBDA normalizedValue :
             LET valid == \E i \in DOMAIN p.AcceptedValues :
                              normalizedValue = ToLower(p.AcceptedValues[i])
             IN IF ~valid
                THEN Rejected(Errorf(<<"value for key ", key,
                                       " must be a boolean (accepted values: ", "%v", ")">>,
                                     p.AcceptedValues, <<>>))
                ELSE Accepted)

\* a variant of EnumValidate with a defect: CaseSensitive is not looked at
EnumValidate_AlwaysFold(p, key, value) ==
    IF key # p.Key THEN NotHandled
    ELSE IF \E i \in DOMAIN p.AllowedValues : EqualFold(value, p.AllowedValues[i])
    THEN Accepted
    ELSE Rejected(Errorf(<<"value for key ", key, " must be one of ", "%v">>,
                         p.AllowedValues, <<>>))

\* lines 27-45
EnumValidate(p, key, value) ==
    IF key # p.Key THEN NotHandled
    ELSE IF \E i \in DOMAIN p.AllowedValues :
                IF p.CaseSensitive THEN value = p.AllowedValues[i]
                ELSE EqualFold(value, p.AllowedValues[i])
    THEN Accepted
    ELSE Rejected(Errorf(<<"value for key ", key, " must be one of ", "%v">>,
                         p.AllowedValues, <<>>))

IPAddressValidate(p, key, value) ==
    IF key # p.Key THEN NotHandled
    ELSE With(ParseIP(TrimSpace(value)), LAMBDA ip :
             LET validVersion ==
                     \E i \in DOMAIN p.AllowedIPVersions :
                         \/ ToLower(p.AllowedIPVersions[i]) = S_ipv4 /\ To4(ip)
                         \/ ToLower(p.AllowedIPVersions[i]) = S_ipv6 /\ To16(ip) /\ ~To4(ip)
             IN IF ip = NoIP
                THEN Rejected(Errorf(<<"value for key ", key,
                                       " must be a valid IP address">>, <<>>, <<>>))
                ELSE IF Len(p.AllowedIPVersions) > 0 /\ ~validVersion
                THEN Rejected(Errorf(<<"value for key ", key,
                                       " must be one of the following IP versions: ", "%v">>,
                                     p.AllowedIPVersions, <<>>))
                ELSE IF p.MustBePrivate /\ ~isPrivateIP(ip)
                THEN Rejected(Errorf(<<"value for key ", key,
                                       " must be a private IP address">>, <<>>, <<>>))
                ELSE Accepted)

\* a variant of URLValidate with a defect: without allowed schemes no
\* scheme is allowed
URLValidate_EmptyAllowsNone(p, key, value) ==
    IF key # p.Key THEN NotHandled
    ELSE With(ParseURL(value), LAMBDA parsedURL :
             IF ~parsedURL.ok \/ parsedURL.Scheme = <<>> \/ parsedURL.Host = <<>>
             THEN Rejected(Errorf(<<"value for key ", key, " must be a valid URL">>,
                                  <<>>, <<>>))
             ELSE IF ~\E i \in DOMAIN p.AllowedSchemes :
                         EqualFold(parsedURL.Scheme, p.AllowedSchemes[i])
             THEN Rejected(Errorf(<<"URL scheme for key ", key, " must be one of ", "%v">>,
                                  p.AllowedSchemes, <<>>))
             ELSE Accepted)

\* a variant of URLValidate with a defect: the scheme is compared with the
\* allowed ones as written
URLValidate_ExactScheme(p, key, value) ==
    IF key # p.Key THEN NotHandled
    ELSE With(ParseURL(value), LAMBDA parsedURL :
             IF ~parsedURL.ok \/ parsedURL.Scheme = <<>> \/ parsedURL.Host = <<>>
             THEN Rejected(Errorf(<<"value for key ", key, " must be a valid URL">>,
                                  <<>>, <<>>))
             ELSE IF /\ Len(p.AllowedSchemes) > 0
                     /\ ~\E i \in DOMAIN p.AllowedSchemes :
                            parsedURL.Scheme = p.AllowedSchemes[i]
             THEN Rejected(Errorf(<<"URL scheme for key ", key, " must be one of ", "%v">>,
                                  p.AllowedSchemes, <<>>))
             ELSE Accepted)

\* lines 27-51
URLValidate(p, key, value) ==
    IF key # p.Key THEN NotHandled
    ELSE With(ParseURL(value), LAMBDA parsedURL :
             IF ~parsedURL.ok \/ parsedURL.Scheme = <<>> \/ parsedURL.Host = <<>>
             THEN Rejected(Errorf(<<"value for key ", key, " must be a valid URL">>,
                                  <<>>, <<>>))
             ELSE IF /\ Len(p.AllowedSchemes) > 0
                     /\ ~\E i \in DOMAIN p.AllowedSchemes :
                            EqualFold(parsedURL.Scheme, p.AllowedSchemes[i])
             THEN Rejected(Errorf(<<"URL scheme for key ", key, " must be one of ", "%v">>,
                                  p.AllowedSchemes, <<>>))
             ELSE Accepted)

CacheSizeMin == 128
CacheSizeMax == 1024

CacheSizeValidate(p, key, value) ==
    IF key # "CACHE_SIZE" THEN NotHandled
    ELSE With(Atoi(value), LAMBDA size :
             IF ~size.ok
             THEN Rejected(Errorf(<<"CACHE_SIZE", " must be a numeric value">>, <<>>, <<>>))
             ELSE IF size.n < CacheSizeMin \/ size.n > CacheSizeMax
             THEN Rejected(Errorf(<<"CACHE_SIZE", " must be between 128 and 1024">>,
                                  <<>>, <<>>))
             ELSE Accepted)

\* plugin.Validate(key, value) through the ValidationPlugin interface
\* an implementation of ValidationPlugin by the caller that refuses every
\* value of its key; its field Handled is the first value it returns then
CustomValidate(p, key, value) ==
    IF key # p.Key THEN NotHandled
    ELSE [handled |-> p.Handled,
          err |-> Errorf(<<"value for key ", key, " is refused">>, <<>>, <<>>)]

Validate(p, key, value) ==
    CASE p.type = "URL" -> URLValidate(p, key, value)
      [] p.type = "Enum" -> EnumValidate(p, key, value)
      [] p.type = "Boolean" -> BooleanValidate(p, key, value)
      [] p.type = "IPAddress" -> IPAddressValidate(p, key, value)
      [] p.type = "CacheSize" -> CacheSizeValidate(p, key, value)
      [] p.type = "Custom" -> CustomValidate(p, key, value)

\* plugin.Name()
Name(p) ==
    CASE p.type = "URL" -> "URLValidationPlugin"
      [] p.type = "Enum" -> "EnumValidationPlugin"
      [] p.type = "Boolean" -> "BooleanValidationPlugin"
      [] p.type = "IPAddress" -> "IPAddressValidationPlugin"
      [] p.type = "CacheSize" -> "CacheSizeValidationPlugin"
      [] p.type = "Custom" -> "CustomPlugin"

CacheSizeValidationPlugin == [type |-> "CacheSize"]

loadBuiltInPlugins ==
    << [type |-> "URL", Key |-> "API_URL", AllowedSchemes |-> <<S_https>>],
       [type |-> "Enum", Key |-> "ENVIRONMENT",
        AllowedValues |-> <<S_DEVELOPMENT, S_STAGING, S_PRODUCTION>>,
        CaseSensitive |-> TRUE],
       [type |-> "Boolean", Key |-> "ENABLE_DEBUG",
        AcceptedValues |-> <<S_true, S_false, S_1, S_0, S_yes, S_no>>,
        Standardize |-> TRUE],
       [type |-> "IPAddress", Key |-> "TRUSTED_PROXY_IP",
        AllowedIPVersions |-> <<S_IPv4, S_IPv6>>, MustBePrivate |-> TRUE] >>

(***************************************************************************)
(* Inputs: the keys, the values a key can hold in a loaded file, the       *)
(* mappings godotenv.Read can return and the arguments of NewValidator.    *)
(***************************************************************************)
S_url_ok == <<"h", "t", "t", "p", "s", ":", "/", "/", "a", ".", "i", "o">>
S_url_http == <<"h", "t", "t", "p", ":", "/", "/", "a", ".", "i", "o">>
S_staging == <<"s", "t", "a", "g", "i", "n", "g">>
S_maybe == <<"m", "a", "y", "b", "e">>
S_256 == <<"2", "5", "6">>
S_64 == <<"6", "4">>
S_anything == <<"a", "n", "y", "t", "h", "i", "n", "g">>

\* the keys of the files and of the required-key lists: three keys with a
\* built-in plugin, the key of the CacheSize plugin and a key without plugin
Keys == {"API_URL", "ENVIRONMENT", "ENABLE_DEBUG", "CACHE_SIZE", "CUSTOM_KEY"}

ValuesOf(k) ==
    CASE k = "API_URL" -> {S_url_ok, S_url_http}
      [] k = "ENVIRONMENT" -> {S_STAGING, S_staging}
      [] k = "ENABLE_DEBUG" -> {S_true, S_maybe}
      [] k = "CACHE_SIZE" -> {S_256, S_64}
      [] k = "CUSTOM_KEY" -> {S_anything}

Values == UNION {ValuesOf(k) : k \in Keys}

\* the mappings of at most MaxEntries entries
EnvMaps ==
    UNION { {m \in [S -> Values] : \A k \in S : m[k] \in ValuesOf(k)} :
            S \in {T \in SUBSET Keys : Cardinality(T) <= MaxEntries} }

\* the requiredKeys argument; the slice only ever fills a map, so its
\* order and its duplicates are lost and it is drawn as a set
RequiredSets == {T \in SUBSET Keys : Cardinality(T) <= MaxRequired}

\* the Config argument.  Verbose only selects what is logged and the
\* log is not modelled, so it is left at its zero value, as is Logger
Configs ==
    { [RequireQuotes |-> rq, Verbose |-> FALSE, Logger |-> "nil", Plugins |-> ps] :
        rq \in BOOLEAN, ps \in {<<>>, <<CacheSizeValidationPlugin>>} }

\* the plugins a caller puts in Config.Plugins: the CacheSize plugin, a
\* second URL plugin equal to the built-in one, and an Enum plugin for a
\* key that a built-in plugin is configured for as well
MaxPlugins == 2
CallerPlugins ==
    { CacheSizeValidationPlugin,
      [type |-> "URL", Key |-> "API_URL", AllowedSchemes |-> <<S_https>>],
      [type |-> "Enum", Key |-> "ENVIRONMENT", AllowedValues |-> <<S_staging>>,
       CaseSensitive |-> FALSE] }
PluginLists ==
    UNION { [1..n -> CallerPlugins] : n \in 0..MaxPlugins }
RegistryConfigs ==
    { [RequireQuotes |-> rq, Verbose |-> FALSE, Logger |-> "nil", Plugins |-> ps] :
        rq \in BOOLEAN, ps \in PluginLists }

\* the sequences that list every element of S once: the orders in
\* which a range over a Go map can visit its keys
Orders(S) ==
    {q \in [1..Cardinality(S) -> S] : \A i, j \in DOMAIN q : i # j => q[i] # q[j]}

(***************************************************************************)
(* The Validator.                                                          *)
(***************************************************************************)
VARIABLES
    validators,  \* validator id -> Validator {config, requiredKeys, plugins}
    calls        \* call id -> the ValidateDotEnv invocation in that slot

vars == <<validators, calls>>

\* variants of NewValidator with a defect: config.Plugins is not appended;
\* config.Plugins is put before the built-in plugins
NewValidator_CallerFirst(config, requiredKeys) ==
    [config |-> config,
     requiredKeys |-> [k \in requiredKeys |-> FALSE],
     plugins |-> config.Plugins \o loadBuiltInPlugins]
NewValidator_BuiltInsOnly(config, requiredKeys) ==
    [config |-> config,
     requiredKeys |-> [k \in requiredKeys |-> FALSE],
     plugins |-> loadBuiltInPlugins]

\* lines 27-41: the ledger starts all false; the registry is the built-in
\* plugins followed by config.Plugins
NewValidator(config, requiredKeys) ==
    [config |-> config,
     requiredKeys |-> [k \in requiredKeys |-> FALSE],
     plugins |-> loadBuiltInPlugins \o config.Plugins]

\* the error godotenv.Read returns for a file it cannot read or parse
LoadError == Errorf(<<"open .env: no such file or directory">>, <<>>, <<>>)

\* the file at filePath: for each key the value of its line and whether the
\* line has the value in quotes; FileOf(m, q) holds the entries of m with
\* the values of the keys in q quoted
FileOf(m, q) == [k \in DOMAIN m |-> [value |-> m[k], quoted |-> k \in q]]

\* godotenv.Read: the mapping has the values without their quotes
Read(file) == [k \in DOMAIN file |-> file[k].value]

\* what loadEnvFile returns for a file that is read, and for one that is not
Loaded_Ok(file) == [file |-> file, envMap |-> Read(file), err |-> NilError]
Loaded_Failed == [file |-> <<>>, envMap |-> <<>>, err |-> LoadError]

\* loadEnvFile(filePath): the mapping of the file, or the loader's error;
\* the files have every value in quotes
loadEnvFile ==
    {Loaded_Ok(FileOf(m, DOMAIN m)) : m \in EnvMaps} \cup {Loaded_Failed}

\* the same, for files with every value in quotes, with all values but
\* one in quotes, and with no value in quotes
QuotePatterns(m) == {DOMAIN m, {}} \cup {DOMAIN m \ {k} : k \in DOMAIN m}
loadEnvFile_AnyQuotes ==
    UNION { {Loaded_Ok(FileOf(m, q)) : q \in QuotePatterns(m)} : m \in EnvMaps }
        \cup {Loaded_Failed}

\* lines 128-141: the plugins are invoked in registry order up to the first
\* one that returns an error; `invoked` counts the plugins invoked
RECURSIVE ScanFrom(_, _, _, _)
ScanFrom(plugins, key, value, i) ==
    IF i > Len(plugins) THEN [invoked |-> Len(plugins), err |-> NilError]
    ELSE With(Validate(plugins[i], key, value).err, LAMBDA err :
             IF ~err.isNil THEN [invoked |-> i, err |-> err]
             ELSE ScanFrom(plugins, key, value, i + 1))

\* variants of ScanPlugins with a defect: every plugin is invoked whatever
\* the earlier ones returned; the errors are dropped; the error is replaced
\* by one that ValidateDotEnv formats from the key and the plugin name
ScanPlugins_InvokeAll(plugins, key, value) ==
    [ScanFrom(plugins, key, value, 1) EXCEPT !.invoked = Len(plugins)]
ScanPlugins_DropErrors(plugins, key, value) ==
    [invoked |-> Len(plugins), err |-> NilError]
ScanPlugins_Reformat(plugins, key, value) ==
    With(ScanFrom(plugins, key, value, 1), LAMBDA scan :
        IF scan.err.isNil THEN scan
        ELSE [scan EXCEPT !.err = Errorf(<<"validation error for key ", key, " by ",
                                           Name(plugins[scan.invoked])>>, <<>>, <<>>)])

\* a variant of ScanPlugins with a defect: an error returned with
\* handled = false is skipped
RECURSIVE ScanFrom_HandledOnly(_, _, _, _)
ScanFrom_HandledOnly(plugins, key, value, i) ==
    IF i > Len(plugins) THEN [invoked |-> Len(plugins), err |-> NilError]
    ELSE With(Validate(plugins[i], key, value), LAMBDA r :
             IF ~r.err.isNil /\ r.handled THEN [invoked |-> i, err |-> r.err]
             ELSE ScanFrom_HandledOnly(plugins, key, value, i + 1))
ScanPlugins_HandledOnly(plugins, key, value) == ScanFrom_HandledOnly(plugins, key, value, 1)

\* a variant of ScanPlugins with a defect: the scan of an entry ends at the
\* first plugin that returns handled = true
RECURSIVE ScanFrom_FirstOwner(_, _, _, _)
ScanFrom_FirstOwner(plugins, key, value, i) ==
    IF i > Len(plugins) THEN [invoked |-> Len(plugins), err |-> NilError]
    ELSE With(Validate(plugins[i], key, value), LAMBDA r :
             IF ~r.err.isNil \/ r.handled THEN [invoked |-> i, err |-> r.err]
             ELSE ScanFrom_FirstOwner(plugins, key, value, i + 1))
ScanPlugins_FirstOwner(plugins, key, value) == ScanFrom_FirstOwner(plugins, key, value, 1)

ScanPlugins(plugins, key, value) == ScanFrom(plugins, key, value, 1)

\* variants of MarkSeen with a defect: no key is marked; only a key that a
\* built-in plugin is configured for is marked
MarkSeen_Never(requiredKeys, key) == requiredKeys
MarkSeen_BuiltInKeys(requiredKeys, key) ==
    IF /\ key \in DOMAIN requiredKeys
       /\ \E i \in DOMAIN loadBuiltInPlugins : loadBuiltInPlugins[i].Key = key
    THEN [requiredKeys EXCEPT ![key] = TRUE]
    ELSE requiredKeys

\* a variant of MarkSeen with a defect: the key is set to true without
\* the test that the map holds it
MarkSeen_AddKey(requiredKeys, key) ==
    [k \in DOMAIN requiredKeys \cup {key} |-> k = key \/ requiredKeys[k]]

\* lines 117-126: a key of the requiredKeys map is set to true
MarkSeen(requiredKeys, key) ==
    IF key \in DOMAIN requiredKeys THEN [requiredKeys EXCEPT ![key] = TRUE]
    ELSE requiredKeys

\* lines 144-149: the keys whose flag is false
MissingKeys(requiredKeys) == {k \in DOMAIN requiredKeys : ~requiredKeys[k]}

\* a call slot that holds no invocation
IdleCall ==
    [pc |-> "idle", v |-> "", file |-> <<>>, envVars |-> <<>>, processed |-> {},
     key |-> "", invoked |-> 0, returned |-> "none", err |-> NilError]

\* a ValidateDotEnv invocation is between its first and its last statement
InCall(c) == calls[c].pc \in {"loop", "done"}

\* lines 87-110: the logger is set when the config has none, the file is
\* loaded, and a loader error is returned wrapped
\* a variant of LoadFrom with a defect: with RequireQuotes set, a file with
\* a value that is not in quotes is refused
LoadFrom_EnforceQuotes(c, v, loaded) ==
    /\ calls[c].pc = "idle"
    /\ validators' = [validators EXCEPT ![v].config.Logger =
                          IF @ = "nil" THEN "logrus" ELSE @]
    /\ calls' = [calls EXCEPT ![c] =
          IF ~loaded.err.isNil
          THEN [IdleCall EXCEPT !.pc = "done", !.v = v, !.returned = "load",
                    !.err = Errorf(<<"failed to load .env file: ", "%w">>
                                       \o loaded.err.text, <<>>, <<>>)]
          ELSE IF /\ validators[v].config.RequireQuotes
                  /\ \E k \in DOMAIN loaded.file : ~loaded.file[k].quoted
          THEN [IdleCall EXCEPT !.pc = "done", !.v = v, !.file = loaded.file,
                    !.envVars = loaded.envMap, !.returned = "content",
                    !.err = Errorf(<<"values must be enclosed in quotes">>, <<>>, <<>>)]
          ELSE [IdleCall EXCEPT !.pc = "loop", !.v = v, !.file = loaded.file,
                                !.envVars = loaded.envMap]]

\* a variant of LoadFrom with a defect: the loader's error is returned as
\* it is, without the "failed to load .env file" wrapping
LoadFrom_Unwrapped(c, v, loaded) ==
    /\ calls[c].pc = "idle"
    /\ validators' = [validators EXCEPT ![v].config.Logger =
                          IF @ = "nil" THEN "logrus" ELSE @]
    /\ calls' = [calls EXCEPT ![c] =
          IF ~loaded.err.isNil
          THEN [IdleCall EXCEPT !.pc = "done", !.v = v, !.returned = "load",
                    !.err = loaded.err]
          ELSE [IdleCall EXCEPT !.pc = "loop", !.v = v, !.file = loaded.file,
                                !.envVars = loaded.envMap]]

\* a variant of LoadFrom with a defect: the flags of the requiredKeys map
\* are set to false before the file is loaded
LoadFrom_ClearLedger(c, v, loaded) ==
    /\ calls[c].pc = "idle"
    /\ validators' = [validators EXCEPT
                          ![v].config.Logger = IF @ = "nil" THEN "logrus" ELSE @,
                          ![v].requiredKeys = [k \in DOMAIN @ |-> FALSE]]
    /\ calls' = [calls EXCEPT ![c] =
          IF ~loaded.err.isNil
          THEN [IdleCall EXCEPT !.pc = "done", !.v = v, !.returned = "load",
                    !.err = Errorf(<<"failed to load .env file: ", "%w">>
                                       \o loaded.err.text, <<>>, <<>>)]
          ELSE [IdleCall EXCEPT !.pc = "loop", !.v = v, !.file = loaded.file,
                                !.envVars = loaded.envMap]]

LoadFrom(c, v, loaded) ==
    /\ calls[c].pc = "idle"
    /\ validators' = [validators EXCEPT ![v].config.Logger =
                          IF @ = "nil" THEN "logrus" ELSE @]
    /\ calls' = [calls EXCEPT ![c] =
          IF ~loaded.err.isNil
          THEN [IdleCall EXCEPT !.pc = "done", !.v = v, !.returned = "load",
                    !.err = Errorf(<<"failed to load .env file: ", "%w">>
                                       \o loaded.err.text, <<>>, <<>>)]
          ELSE [IdleCall EXCEPT !.pc = "loop", !.v = v, !.file = loaded.file,
                                !.envVars = loaded.envMap]]

Load(c, v) == \E loaded \in loadEnvFile : LoadFrom(c, v, loaded)

\* a variant of Entry with a defect: an error leaves the range (break) and
\* the call goes on to the missing-key check
Entry_Break(c) ==
    /\ calls[c].pc = "loop"
    /\ \E key \in DOMAIN calls[c].envVars \ calls[c].processed :
       \E v \in {calls[c].v} :
       \E scan \in {ScanPlugins(validators[v].plugins, key, calls[c].envVars[key])} :
           /\ validators' = [validators EXCEPT ![v].requiredKeys = MarkSeen(@, key)]
           /\ calls' = [calls EXCEPT ![c].processed =
                                         IF scan.err.isNil THEN @ \cup {key}
                                         ELSE DOMAIN calls[c].envVars,
                                     ![c].key = key,
                                     ![c].invoked = scan.invoked]

\* a variant of Entry with a defect: the key is marked after the plugins
\* have accepted the entry
Entry_MarkAfterScan(c) ==
    /\ calls[c].pc = "loop"
    /\ \E key \in DOMAIN calls[c].envVars \ calls[c].processed :
       \E v \in {calls[c].v} :
       \E scan \in {ScanPlugins(validators[v].plugins, key, calls[c].envVars[key])} :
           /\ validators' = [validators EXCEPT ![v].requiredKeys =
                                 IF scan.err.isNil THEN MarkSeen(@, key) ELSE @]
           /\ calls' = [calls EXCEPT ![c].processed = @ \cup {key},
                                     ![c].key = key,
                                     ![c].invoked = scan.invoked,
                                     ![c].err = scan.err,
                                     ![c].returned =
                                         IF scan.err.isNil THEN "none" ELSE "content",
                                     ![c].pc = IF scan.err.isNil THEN "loop" ELSE "done"]

\* lines 112-142, one iteration of the range over envVars: the key is
\* marked, then the plugins are scanned; an error ends the call
Entry(c) ==
    /\ calls[c].pc = "loop"
    /\ \E key \in DOMAIN calls[c].envVars \ calls[c].processed :
       \E v \in {calls[c].v} :
       \E scan \in {ScanPlugins(validators[v].plugins, key, calls[c].envVars[key])} :
           /\ validators' = [validators EXCEPT ![v].requiredKeys = MarkSeen(@, key)]
           /\ calls' = [calls EXCEPT ![c].processed = @ \cup {key},
                                     ![c].key = key,
                                     ![c].invoked = scan.invoked,
                                     ![c].err = scan.err,
                                     ![c].returned =
                                         IF scan.err.isNil THEN "none" ELSE "content",
                                     ![c].pc = IF scan.err.isNil THEN "loop" ELSE "done"]

\* a variant of Missing with a defect: the range over requiredKeys ends at
\* the first key whose flag is false
Missing_FirstOnly(c) ==
    /\ calls[c].pc = "loop"
    /\ calls[c].processed = DOMAIN calls[c].envVars
    /\ \E found \in Orders(MissingKeys(validators[calls[c].v].requiredKeys)) :
       \E missingKeys \in {SubSeq(found, 1, IF Len(found) > 0 THEN 1 ELSE 0)} :
        calls' = [calls EXCEPT
            ![c].pc = "done",
            ![c].returned = IF Len(missingKeys) > 0 THEN "missing" ELSE "nil",
            ![c].err = IF Len(missingKeys) > 0
                       THEN Errorf(<<"missing required keys: ", "%v">>, <<>>, missingKeys)
                       ELSE NilError]
    /\ UNCHANGED validators

\* lines 144-159, after the range: the missing keys are collected in the
\* order the range over requiredKeys visits them
Missing(c) ==
    /\ calls[c].pc = "loop"
    /\ calls[c].processed = DOMAIN calls[c].envVars
    /\ \E missingKeys \in Orders(MissingKeys(validators[calls[c].v].requiredKeys)) :
        calls' = [calls EXCEPT
            ![c].pc = "done",
            ![c].returned = IF Len(missingKeys) > 0 THEN "missing" ELSE "nil",
            ![c].err = IF Len(missingKeys) > 0
                       THEN Errorf(<<"missing required keys: ", "%v">>, <<>>, missingKeys)
                       ELSE NilError]
    /\ UNCHANGED validators

\* a variant of Return with a defect: a call that returns an error sets the
\* flags of the requiredKeys map to false on its way out
Return_UndoMarks(c) ==
    /\ calls[c].pc = "done"
    /\ calls' = [calls EXCEPT ![c] = IdleCall]
    /\ validators' = [validators EXCEPT ![calls[c].v].requiredKeys =
                          IF calls[c].err.isNil THEN @ ELSE [k \in DOMAIN @ |-> FALSE]]

\* the caller has the returned error; the slot is free again
Return(c) ==
    /\ calls[c].pc = "done"
    /\ calls' = [calls EXCEPT ![c] = IdleCall]
    /\ UNCHANGED validators

(***************************************************************************)
(* Spec: one Validator variable and one caller.  The caller constructs a   *)
(* Validator (again) or calls ValidateDotEnv on the one it has; a call     *)
(* runs to its return before the caller does anything else.                *)
(***************************************************************************)
NoCallRunning == \A d \in DOMAIN calls : calls[d].pc = "idle"

\* validator = NewValidator(config, requiredKeys)
Construct(v) ==
    /\ NoCallRunning
    /\ \E config \in Configs, requiredKeys \in RequiredSets :
        validators' = [validators EXCEPT ![v] = NewValidator(config, requiredKeys)]
    /\ UNCHANGED calls

\* err := validator.ValidateDotEnv(filePath)
ValidateDotEnv_Load(c, v) == NoCallRunning /\ Load(c, v)
ValidateDotEnv_Entry(c) == Entry(c)
ValidateDotEnv_Missing(c) == Missing(c)
ValidateDotEnv_Return(c) == Return(c)

Init ==
    /\ validators \in [{"v1"} -> {NewValidator(config, requiredKeys) :
                                       config \in Configs, requiredKeys \in RequiredSets}]
    /\ calls = [c \in {"c1"} |-> IdleCall]

Next ==
    \/ \E v \in DOMAIN validators : Construct(v)
    \/ \E c \in DOMAIN calls, v \in DOMAIN validators : ValidateDotEnv_Load(c, v)
    \/ \E c \in DOMAIN calls : ValidateDotEnv_Entry(c)
    \/ \E c \in DOMAIN calls : ValidateDotEnv_Missing(c)
    \/ \E c \in DOMAIN calls : ValidateDotEnv_Return(c)

Spec == Init /\ [][Next]_vars

(***************************************************************************)
(* SpecTwice: the same file validated twice, each time by a Validator      *)
(* freshly constructed from the same arguments.  The second run starts     *)
(* when the first has returned, and the loader reads the same file.        *)
(***************************************************************************)
InitTwice ==
    /\ \E config \in Configs, requiredKeys \in RequiredSets :
        validators = [v \in {"v1", "v2"} |-> NewValidator(config, requiredKeys)]
    /\ calls = [c \in {"c1", "c2"} |-> IdleCall]

FirstRun_Load == Load("c1", "v1")
FirstRun_Entry == Entry("c1")
FirstRun_Missing == Missing("c1")

SecondRun_Load ==
    /\ calls["c1"].pc = "done"
    /\ Load("c2", "v2")
    /\ calls'["c2"].envVars = calls["c1"].envVars
    /\ (calls'["c2"].returned = "load") = (calls["c1"].returned = "load")
SecondRun_Entry == Entry("c2")
SecondRun_Missing == Missing("c2")

NextTwice ==
    \/ FirstRun_Load
    \/ FirstRun_Entry
    \/ FirstRun_Missing
    \/ SecondRun_Load
    \/ SecondRun_Entry
    \/ SecondRun_Missing

SpecTwice == InitTwice /\ [][NextTwice]_vars

(***************************************************************************)
(* Vocabulary of the properties.                                           *)
(***************************************************************************)
\* the registry, the ledger and the required keys of the Validator of call c
Registry(c) == validators[calls[c].v].plugins
Ledger(c) == validators[calls[c].v].requiredKeys
Required(c) == DOMAIN Ledger(c)

\* call c has returned; call c got a mapping from the loader
Done(c) == calls[c].pc = "done"
Loaded(c) == InCall(c) /\ calls[c].returned # "load"

\* plugin p claims the entry (handled = true); plugin p rejects it (err # nil)
Claims(p, key, value) == Validate(p, key, value).handled
Rejects(p, key, value) == ~Validate(p, key, value).err.isNil

\* no plugin of the registry rejects any entry of the mapping of call c
NoRejection(c) ==
    \A k \in DOMAIN calls[c].envVars : \A i \in DOMAIN Registry(c) :
        ~Rejects(Registry(c)[i], k, calls[c].envVars[k])

\* the required keys that the mapping of call c does not hold
Absent(c) == Required(c) \ DOMAIN calls[c].envVars

\* the keys a missing-required-keys error lists
ListedKeys(err) == {err.keys[i] : i \in DOMAIN err.keys}

\* the plugin whose error call c returned
Rejecter(c) == Registry(c)[calls[c].invoked]

(***************************************************************************)
(* C1: when the mapping holds every required key and every plugin that     *)
(* claims an entry accepts it, ValidateDotEnv returns nil.                 *)
(***************************************************************************)
C1_ValidMappingSucceeds ==
    \A c \in DOMAIN calls :
        ( /\ Done(c) /\ Loaded(c)
          /\ Absent(c) = {}
          /\ \A k \in DOMAIN calls[c].envVars : \A i \in DOMAIN Registry(c) :
                 Claims(Registry(c)[i], k, calls[c].envVars[k])
                     => ~Rejects(Registry(c)[i], k, calls[c].envVars[k]) )
        => calls[c].returned = "nil" /\ calls[c].err.isNil

\* a call returned nil for a mapping that holds the required keys, one of
\* them claimed by a plugin
C1_Witness ==
    \E c \in DOMAIN calls :
        /\ Done(c) /\ calls[c].returned = "nil"
        /\ Cardinality(Required(c)) >= 2
        /\ \E k \in Required(c) : \E i \in DOMAIN Registry(c) :
               Claims(Registry(c)[i], k, calls[c].envVars[k])

(***************************************************************************)
(* C2: when no plugin rejects an entry and some required keys are absent   *)
(* from the mapping, ValidateDotEnv returns the missing-required-keys      *)
(* error, and the error lists exactly the absent required keys.            *)
(***************************************************************************)
C2_MissingListsExactlyAbsent ==
    \A c \in DOMAIN calls :
        (Done(c) /\ Loaded(c) /\ NoRejection(c) /\ Absent(c) # {})
        => calls[c].returned = "missing" /\ ListedKeys(calls[c].err) = Absent(c)

(***************************************************************************)
(* C3: whenever ValidateDotEnv returns nil, every required key is in the   *)
(* mapping of that call and every plugin that claims it accepts its value. *)
(***************************************************************************)
C3_SuccessImpliesPresent ==
    \A c \in DOMAIN calls :
        (Done(c) /\ calls[c].returned = "nil")
        => /\ Absent(c) = {}
           /\ \A k \in Required(c) \cap DOMAIN calls[c].envVars :
                  \A i \in DOMAIN Registry(c) :
                      ~Rejects(Registry(c)[i], k, calls[c].envVars[k])

(***************************************************************************)
(* C4: at the start of every ValidateDotEnv call, before an entry is       *)
(* processed, every required key's seen flag is false.                     *)
(***************************************************************************)
C4_FreshLedgerPerCall ==
    \A c \in DOMAIN calls :
        (InCall(c) /\ calls[c].processed = {})
        => \A k \in Required(c) : ~Ledger(c)[k]

(***************************************************************************)
(* C5: the first rejection ends the call: the rejecting plugin is the last *)
(* one invoked, no plugin before it rejected, the entries processed        *)
(* earlier had no rejection, and once the content violation is returned    *)
(* no step invokes a plugin, processes an entry or marks a key.            *)
(***************************************************************************)
C5_RejectionIsLast(c) ==
    calls[c].returned = "content"
    => /\ Done(c)
       /\ calls[c].key \in calls[c].processed
       /\ calls[c].invoked \in DOMAIN Registry(c)
       /\ Rejects(Rejecter(c), calls[c].key, calls[c].envVars[calls[c].key])
       /\ \A j \in 1..(calls[c].invoked - 1) :
              ~Rejects(Registry(c)[j], calls[c].key, calls[c].envVars[calls[c].key])
       /\ \A k \in calls[c].processed \ {calls[c].key} : \A i \in DOMAIN Registry(c) :
              ~Rejects(Registry(c)[i], k, calls[c].envVars[k])

C5_NothingAfterRejection(c) ==
    calls[c].returned = "content"
    => /\ validators' = validators
       /\ calls'[c] = calls[c] \/ calls'[c] = IdleCall

C5_FailFast ==
    /\ [](\A c \in DOMAIN calls : C5_RejectionIsLast(c))
    /\ [][\A c \in DOMAIN calls : C5_NothingAfterRejection(c)]_vars

\* a call was ended by a rejection while an entry was still unprocessed
\* and a plugin of the registry still not invoked
C5_Witness ==
    \E c \in DOMAIN calls :
        /\ calls[c].returned = "content"
        /\ calls[c].processed # DOMAIN calls[c].envVars
        /\ calls[c].invoked < Len(Registry(c))

(***************************************************************************)
(* C6: the missing-required-keys error is returned only after every entry  *)
(* was processed and no plugin rejected one; a mapping with a rejected     *)
(* value and absent required keys yields the content violation.            *)
(***************************************************************************)
C6_MissingOnlyAfterFullPass ==
    \A c \in DOMAIN calls :
        /\ calls[c].returned = "missing"
               => calls[c].processed = DOMAIN calls[c].envVars /\ NoRejection(c)
        /\ (Done(c) /\ Loaded(c) /\ ~NoRejection(c) /\ Absent(c) # {})
               => calls[c].returned = "content"

\* a content violation was returned while required keys were absent and
\* unmarked
C6_Witness ==
    \E c \in DOMAIN calls :
        /\ Done(c) /\ calls[c].returned = "content"
        /\ Absent(c) # {}
        /\ Absent(c) \subseteq MissingKeys(Ledger(c))

Verdict(c) ==
    [kind |-> calls[c].returned,
     key |-> IF calls[c].returned = "content" THEN calls[c].key ELSE "",
     err |-> IF calls[c].returned = "content" THEN calls[c].err ELSE NilError,
     missing |-> IF calls[c].returned = "missing" THEN ListedKeys(calls[c].err) ELSE {}]

\* the keys of the mapping of call c whose value some plugin rejects
Rejectable(c) ==
    {k \in DOMAIN calls[c].envVars :
         \E i \in DOMAIN Registry(c) : Rejects(Registry(c)[i], k, calls[c].envVars[k])}

(***************************************************************************)
(* C8, as stated: two runs on the same mapping, required keys and          *)
(* registry, each with a fresh ledger, return the same verdict: the same   *)
(* kind and the same violation or missing set, for every mapping.          *)
(***************************************************************************)
C8_SameVerdict ==
    (Done("c1") /\ Done("c2")) => Verdict("c1") = Verdict("c2")

(***************************************************************************)
(* C8, amended: two such runs return the same kind of verdict and, when    *)
(* it is the missing-keys error, the same set of keys; they return the     *)
(* same content violation when at most one key of the mapping holds a      *)
(* value that a plugin rejects.                                            *)
(***************************************************************************)
C8_SameKind ==
    (Done("c1") /\ Done("c2"))
    => /\ Verdict("c1").kind = Verdict("c2").kind
       /\ Verdict("c1").missing = Verdict("c2").missing
       /\ Cardinality(Rejectable("c1")) <= 1 => Verdict("c1") = Verdict("c2")

\* both runs returned a content violation, for different keys
C8_Witness ==
    /\ Done("c1") /\ Done("c2")
    /\ calls["c1"].returned = "content" /\ calls["c2"].returned = "content"
    /\ calls["c1"].key # calls["c2"].key
    /\ calls["c1"].err # calls["c2"].err

(***************************************************************************)
(* C9: a key that no plugin claims never causes a failure: the key of a    *)
(* content violation is claimed by the rejecting plugin, and a required    *)
(* key that is in the mapping and that no plugin claims is not listed as   *)
(* missing.                                                                *)
(***************************************************************************)
C9_UnclaimedKeyNeverFails ==
    \A c \in DOMAIN calls :
        /\ calls[c].returned = "content"
               => Claims(Rejecter(c), calls[c].key, calls[c].envVars[calls[c].key])
        /\ calls[c].returned = "missing"
               => \A k \in Required(c) \cap DOMAIN calls[c].envVars :
                      (\A i \in DOMAIN Registry(c) :
                           ~Claims(Registry(c)[i], k, calls[c].envVars[k]))
                      => k \notin ListedKeys(calls[c].err)

\* a call returned the missing-keys error for a mapping that holds a
\* required key no plugin claims
C9_Witness ==
    \E c \in DOMAIN calls :
        /\ calls[c].returned = "missing"
        /\ "CUSTOM_KEY" \in Required(c) \cap DOMAIN calls[c].envVars
        /\ \A i \in DOMAIN Registry(c) :
               ~Claims(Registry(c)[i], "CUSTOM_KEY", calls[c].envVars["CUSTOM_KEY"])

(***************************************************************************)
(* C10: the plugins of config.Plugins are in the registry after the        *)
(* built-in ones and are invoked for every entry that no plugin before     *)
(* them rejects; with the CacheSize plugin supplied and nothing else to    *)
(* reject, CACHE_SIZE=64 fails the call with the plugin's reason and       *)
(* CACHE_SIZE=256 does not fail it.                                        *)
(***************************************************************************)
C10_OnlyCacheSizeRejectable(c) ==
    /\ Done(c) /\ Loaded(c)
    /\ \E i \in DOMAIN validators[calls[c].v].config.Plugins :
           validators[calls[c].v].config.Plugins[i] = CacheSizeValidationPlugin
    /\ "CACHE_SIZE" \in DOMAIN calls[c].envVars
    /\ Rejectable(c) \subseteq {"CACHE_SIZE"}

C10_CallerPluginConsulted ==
    \A c \in DOMAIN calls :
        /\ InCall(c) =>
               Registry(c) = loadBuiltInPlugins \o validators[calls[c].v].config.Plugins
        /\ (InCall(c) /\ calls[c].processed # {} /\ calls[c].returned # "content")
               => calls[c].invoked
                      = Len(loadBuiltInPlugins) + Len(validators[calls[c].v].config.Plugins)
        /\ (C10_OnlyCacheSizeRejectable(c) /\ calls[c].envVars["CACHE_SIZE"] = S_64)
               => /\ calls[c].returned = "content"
                  /\ calls[c].key = "CACHE_SIZE"
                  /\ calls[c].err = Errorf(<<"CACHE_SIZE", " must be between 128 and 1024">>,
                                           <<>>, <<>>)
        /\ (C10_OnlyCacheSizeRejectable(c) /\ calls[c].envVars["CACHE_SIZE"] = S_256)
               => calls[c].returned # "content"
        /\ (C10_OnlyCacheSizeRejectable(c) /\ calls[c].envVars["CACHE_SIZE"] = S_256
                /\ Absent(c) = {})
               => calls[c].returned = "nil"

\* the CacheSize plugin, supplied by the caller, rejected CACHE_SIZE=64
\* after another entry of the mapping had been accepted
C10_Witness ==
    \E c \in DOMAIN calls :
        /\ C10_OnlyCacheSizeRejectable(c)
        /\ calls[c].envVars["CACHE_SIZE"] = S_64
        /\ calls[c].returned = "content"
        /\ calls[c].invoked = Len(loadBuiltInPlugins) + 1
        /\ Cardinality(calls[c].processed) = 2

(***************************************************************************)
(* SpecRegistry: a caller constructs Validators over and over, with any    *)
(* list of at most MaxPlugins plugins in Config.Plugins.                   *)
(***************************************************************************)
InitRegistry ==
    /\ validators \in [{"v1"} -> {NewValidator(config, {}) : config \in Configs}]
    /\ calls = [c \in {"c1"} |-> IdleCall]

Registry_Construct ==
    /\ \E config \in RegistryConfigs, requiredKeys \in RequiredSets :
        validators' = [validators EXCEPT !["v1"] = NewValidator(config, requiredKeys)]
    /\ UNCHANGED calls

NextRegistry == Registry_Construct

SpecRegistry == InitRegistry /\ [][NextRegistry]_vars

(***************************************************************************)
(* C11: the registry of a Validator is the four built-in plugins (URL for  *)
(* API_URL, Enum for ENVIRONMENT, Boolean for ENABLE_DEBUG, IP for         *)
(* TRUSTED_PROXY_IP, in the order loadBuiltInPlugins lists them) followed  *)
(* by the plugins of Config.Plugins in the order given, none removed: its  *)
(* length is 4 plus the number of caller plugins.                          *)
(***************************************************************************)
C11_KindAndKey(p) == <<p.type, IF "Key" \in DOMAIN p THEN p.Key ELSE "">>

C11_RegistryIsBuiltInsThenCaller ==
    \A v \in DOMAIN validators :
        LET plugins == validators[v].plugins
            caller == validators[v].config.Plugins
        IN /\ Len(plugins) = 4 + Len(caller)
           /\ C11_KindAndKey(plugins[1]) = <<"URL", "API_URL">>
           /\ C11_KindAndKey(plugins[2]) = <<"Enum", "ENVIRONMENT">>
           /\ C11_KindAndKey(plugins[3]) = <<"Boolean", "ENABLE_DEBUG">>
           /\ C11_KindAndKey(plugins[4]) = <<"IPAddress", "TRUSTED_PROXY_IP">>
           /\ \A i \in DOMAIN caller : plugins[4 + i] = caller[i]

\* a registry of six plugins: the caller gave two different plugins, the
\* first of them equal to a built-in one
C11_Witness ==
    \E v \in DOMAIN validators :
        /\ Len(validators[v].plugins) = 6
        /\ validators[v].plugins[5] = validators[v].plugins[1]
        /\ validators[v].plugins[6] = CacheSizeValidationPlugin

(***************************************************************************)
(* SpecQuotes: one file, with some, all or none of its values in quotes,   *)
(* validated by two Validators with the built-in plugins that differ in    *)
(* RequireQuotes only: v1 has it set, v2 has it clear.  The second run     *)
(* starts when the first has returned.                                     *)
(***************************************************************************)
InitQuotes ==
    /\ \E config \in {cf \in Configs : cf.Plugins = <<>>}, requiredKeys \in RequiredSets :
        validators =
            [v \in {"v1", "v2"} |->
                NewValidator([config EXCEPT !.RequireQuotes = (v = "v1")], requiredKeys)]
    /\ calls = [c \in {"c1", "c2"} |-> IdleCall]

Quotes_FirstLoad == \E loaded \in loadEnvFile_AnyQuotes : LoadFrom("c1", "v1", loaded)
Quotes_FirstEntry == Entry("c1")
Quotes_FirstMissing == Missing("c1")

Quotes_SecondLoad ==
    /\ calls["c1"].pc = "done"
    /\ \E loaded \in loadEnvFile_AnyQuotes :
        /\ loaded.file = calls["c1"].file
        /\ loaded.err.isNil = (calls["c1"].returned # "load")
        /\ LoadFrom("c2", "v2", loaded)
Quotes_SecondEntry == Entry("c2")
Quotes_SecondMissing == Missing("c2")

NextQuotes ==
    \/ Quotes_FirstLoad
    \/ Quotes_FirstEntry
    \/ Quotes_FirstMissing
    \/ Quotes_SecondLoad
    \/ Quotes_SecondEntry
    \/ Quotes_SecondMissing

SpecQuotes == InitQuotes /\ [][NextQuotes]_vars

\* the keys of the file of call c whose value is not in quotes
Unquoted(c) == {k \in DOMAIN calls[c].file : ~calls[c].file[k].quoted}

\* the Validator of call c has RequireQuotes set
RequireQuotes(c) == validators[calls[c].v].config.RequireQuotes

C13_RequireQuotesEnforced ==
    \A c \in DOMAIN calls :
        (Done(c) /\ Loaded(c) /\ RequireQuotes(c) /\ Unquoted(c) # {})
        => calls[c].returned # "nil"

(***************************************************************************)
(* C14, as stated: every returned call is a success, a content violation   *)
(* or a missing-required-keys failure.                                     *)
(***************************************************************************)
C14_ThreeOutcomes ==
    \A c \in DOMAIN calls :
        Done(c) => calls[c].returned \in {"nil", "content", "missing"}

(***************************************************************************)
(* C14, amended: every returned call is a success (nil), a content         *)
(* violation (the error of a plugin), a missing-required-keys failure      *)
(* ("missing required keys: " and the keys) or a load failure ("failed to  *)
(* load .env file: " and the loader's error, before any entry is           *)
(* processed).                                                             *)
(***************************************************************************)
C14_FourOutcomes ==
    \A c \in DOMAIN calls :
        Done(c)
        => /\ calls[c].returned \in {"nil", "content", "missing", "load"}
           /\ calls[c].err.isNil <=> calls[c].returned = "nil"
           /\ calls[c].returned = "content"
                  => calls[c].err
                         = Validate(Rejecter(c), calls[c].key,
                                    calls[c].envVars[calls[c].key]).err
           /\ calls[c].returned = "missing"
                  => /\ calls[c].err.text = <<"missing required keys: ", "%v">>
                     /\ ListedKeys(calls[c].err) # {}
           /\ calls[c].returned = "load"
                  => /\ calls[c].err.text
                            = <<"failed to load .env file: ", "%w">> \o LoadError.text
                     /\ calls[c].processed = {}

\* a call returned the load failure
C14_Witness ==
    \E c \in DOMAIN calls :
        /\ Done(c) /\ calls[c].returned = "load"
        /\ Contains(calls[c].err, "failed to load .env file: ")

(***************************************************************************)
(* SpecConcurrent: two goroutines, each calling ValidateDotEnv once, on    *)
(* the same Validator or on different ones; their steps interleave.  The   *)
(* Validators have the built-in plugins, which have no side effects, and   *)
(* the files have the keys API_URL, ENVIRONMENT and CUSTOM_KEY.            *)
(***************************************************************************)
ConcurrentKeys == {"API_URL", "ENVIRONMENT", "CUSTOM_KEY"}

InitConcurrent ==
    /\ \E config \in {cf \in Configs : cf.Plugins = <<>> /\ ~cf.RequireQuotes},
          requiredKeys \in {r \in RequiredSets : r \subseteq ConcurrentKeys} :
        validators = [v \in {"v1", "v2"} |-> NewValidator(config, requiredKeys)]
    /\ calls = [c \in {"c1", "c2"} |-> IdleCall]

Concurrent_Load(c, v) ==
    \E loaded \in {l \in loadEnvFile : DOMAIN l.envMap \subseteq ConcurrentKeys} :
        LoadFrom(c, v, loaded)
Concurrent_Entry(c) == Entry(c)
Concurrent_Missing(c) == Missing(c)

NextConcurrent ==
    \/ \E c \in DOMAIN calls, v \in DOMAIN validators : Concurrent_Load(c, v)
    \/ \E c \in DOMAIN calls : Concurrent_Entry(c)
    \/ \E c \in DOMAIN calls : Concurrent_Missing(c)

SpecConcurrent == InitConcurrent /\ [][NextConcurrent]_vars

\* call c is about to write a flag of the ledger (line 118) while call d,
\* on the same Validator, is in the part of ValidateDotEnv that reads and
\* writes the ledger (lines 112-149)
ConflictingAccess(c, d) ==
    /\ c # d
    /\ calls[c].pc = "loop" /\ calls[d].pc = "loop"
    /\ calls[c].v = calls[d].v
    /\ (DOMAIN calls[c].envVars \ calls[c].processed) \cap Required(c) # {}

\* the kind of result of call c when it runs alone on a new Validator
KindAlone(c) ==
    IF Rejectable(c) # {} THEN "content"
    ELSE IF Absent(c) # {} THEN "missing"
    ELSE "nil"

(***************************************************************************)
(* C15: under every interleaving of two ValidateDotEnv calls, on the same  *)
(* Validator or not, no call is about to write a ledger that the other     *)
(* call reads or writes, and each call returns what it returns when run    *)
(* alone: the same kind of result and, for missing keys, the required      *)
(* keys absent from its own file.                                          *)
(***************************************************************************)
C15_ConcurrentCallsIndependent ==
    \A c \in DOMAIN calls :
        /\ \A d \in DOMAIN calls : ~ConflictingAccess(c, d)
        /\ (Done(c) /\ Loaded(c))
               => /\ calls[c].returned = KindAlone(c)
                  /\ calls[c].returned = "missing" => ListedKeys(calls[c].err) = Absent(c)

(***************************************************************************)
(* SpecPlugins: a caller invokes Validate of one plugin, on a key and a    *)
(* value, and gets (handled, err).  The plugin's configuration and the     *)
(* value are written from a description (a word, its casing, the white     *)
(* space around it, ...) that the call slot keeps next to the result.      *)
(***************************************************************************)
MaxPad == 1

\* the runs of at most MaxPad blanks and tabs
Pads == UNION { [1..n -> {" ", "\t"}] : n \in 0..MaxPad }

UpperChar(c) ==
    IF IndexIn(c, LowerLetters) > 0 THEN UpperLetters[IndexIn(c, LowerLetters)] ELSE c

\* a lower-case word in lower case, in upper case, or with a capital
ApplyCase(word, casing) ==
    CASE casing = "lower" -> word
      [] casing = "upper" -> [i \in 1..Len(word) |-> UpperChar(word[i])]
      [] casing = "title" -> [i \in 1..Len(word) |-> IF i = 1 THEN UpperChar(word[i])
                                                      ELSE word[i]]

\* the text of a described word
Render(d) == d.left \o ApplyCase(d.word, d.casing) \o d.right

Plain(word) == [word |-> word, casing |-> "lower", left |-> <<>>, right |-> <<>>]

\* the keys Validate is called with: the plugin's key and another one
PluginKey == "THE_KEY"
PluginCallKeys == {PluginKey, "OTHER_KEY"}

\* a call slot: what was called with what, and what it returned
IdlePluginCall == [pc |-> "idle"]
PluginCall(plugin, key, value, described, result) ==
    [pc |-> "returned", plugin |-> plugin, key |-> key, value |-> value,
     described |-> described, result |-> result]

InitPlugins ==
    /\ validators = <<>>
    /\ calls = [c \in {"p1"} |-> IdlePluginCall]

\* the caller takes the result; the slot is free again
Plugins_Return ==
    /\ calls["p1"].pc = "returned"
    /\ calls' = [calls EXCEPT !["p1"] = IdlePluginCall]
    /\ UNCHANGED validators

\* BooleanValidationPlugin: the words, the descriptions of the values and
\* of the accepted literals
S_on == <<"o", "n">>
BooleanWords ==
    {S_true, S_false, S_1, S_0, S_yes, S_no, S_maybe, S_on, <<>>,
     <<"t", "r", " ", "u", "e">>}
BooleanValues ==
    { [word |-> w, casing |-> cs, left |-> l, right |-> r] :
        w \in BooleanWords, cs \in {"lower", "upper", "title"}, l \in Pads, r \in Pads }
BooleanAccepted ==
    { <<Plain(S_true), Plain(S_false), Plain(S_1), Plain(S_0), Plain(S_yes), Plain(S_no)>>,
      <<[Plain(S_true) EXCEPT !.casing = "upper"], [Plain(S_on) EXCEPT !.casing = "title"]>>,
      <<[Plain(S_yes) EXCEPT !.left = <<" ">>], Plain(S_no)>>,
      <<>> }

Plugins_Boolean ==
    /\ calls["p1"].pc = "idle"
    /\ \E accepted \in BooleanAccepted, standardize \in BOOLEAN,
          d \in BooleanValues, key \in PluginCallKeys :
        LET p == [type |-> "Boolean", Key |-> PluginKey,
                  AcceptedValues |-> [i \in DOMAIN accepted |-> Render(accepted[i])],
                  Standardize |-> standardize]
        IN calls' = [calls EXCEPT !["p1"] =
               PluginCall(p, key, Render(d), [value |-> d, accepted |-> accepted],
                          Validate(p, key, Render(d)))]
    /\ UNCHANGED validators

\* EnumValidationPlugin: the words, the descriptions of the values and of
\* the allowed values
S_development == <<"d", "e", "v", "e", "l", "o", "p", "m", "e", "n", "t">>
S_production == <<"p", "r", "o", "d", "u", "c", "t", "i", "o", "n">>
S_invalid_env == <<"i", "n", "v", "a", "l", "i", "d", "_", "e", "n", "v">>
EnumWords == {S_development, S_staging, S_production, S_invalid_env}
EnumValues ==
    { [word |-> w, casing |-> cs, left |-> l, right |-> r] :
        w \in EnumWords, cs \in {"lower", "upper", "title"}, l \in Pads, r \in Pads }
EnumAllowed ==
    { <<[Plain(S_development) EXCEPT !.casing = "upper"],
        [Plain(S_staging) EXCEPT !.casing = "upper"],
        [Plain(S_production) EXCEPT !.casing = "upper"]>>,
      <<[Plain(S_staging) EXCEPT !.casing = "title"], Plain(S_production)>>,
      <<[Plain(S_staging) EXCEPT !.left = <<" ">>]>>,
      <<>> }

Plugins_Enum ==
    /\ calls["p1"].pc = "idle"
    /\ \E allowed \in EnumAllowed, caseSensitive \in BOOLEAN,
          d \in EnumValues, key \in PluginCallKeys :
        LET p == [type |-> "Enum", Key |-> PluginKey,
                  AllowedValues |-> [i \in DOMAIN allowed |-> Render(allowed[i])],
                  CaseSensitive |-> caseSensitive]
        IN calls' = [calls EXCEPT !["p1"] =
               PluginCall(p, key, Render(d), [value |-> d, allowed |-> allowed],
                          Validate(p, key, Render(d)))]
    /\ UNCHANGED validators

\* IPAddressValidationPlugin: the addresses are described by their bytes
\* (IPv4, and IPv4 written as IPv4-mapped IPv6) or by their first and last
\* 16-bit group with zeros between (IPv6), and written out in decimal and
\* hexadecimal; the texts that are no address are listed
RECURSIVE ToDecimal(_)
ToDecimal(n) ==
    IF n < 10 THEN <<Digits[n + 1]>>
    ELSE ToDecimal(n \div 10) \o <<Digits[(n % 10) + 1]>>

RECURSIVE ToHex(_)
ToHex(n) ==
    LET digit(k) == IF k < 10 THEN Digits[k + 1] ELSE HexLower[k - 9]
    IN IF n < 16 THEN <<digit(n)>> ELSE ToHex(n \div 16) \o <<digit(n % 16)>>

Dotted(b) ==
    ToDecimal(b[1]) \o <<".">> \o ToDecimal(b[2]) \o <<".">>
        \o ToDecimal(b[3]) \o <<".">> \o ToDecimal(b[4])

RenderIP(d) ==
    d.left \o
    ( CASE d.form = "v4" -> Dotted(d.bytes)
        [] d.form = "mapped" -> <<":", ":", "f", "f", "f", "f", ":">> \o Dotted(d.bytes)
        [] d.form = "v6" -> (IF d.first = 0 THEN <<>> ELSE ToHex(d.first))
                                \o <<":", ":">> \o ToHex(d.last)
        [] d.form = "none" -> d.text )
    \o d.right

IPv4Bytes ==
    { <<a, b, 1, 100>> : a \in {8, 10, 11, 172, 192}, b \in {8, 15, 16, 31, 32, 167, 168} }
        \cup { <<8, 8, 8, 8>> }
IPv6Groups ==
    { [first |-> f, last |-> l] :
        f \in {0, 8193, 64511, 64512, 64786, 65023, 65024}, l \in {1, 2} }
NoAddress ==
    { <<>>, <<"n", "o", "t", "-", "a", "n", "-", "i", "p">>,
      <<"2", "5", "6", ".", "1", ".", "1", ".", "1">>, <<"1", ".", "2", ".", "3">>,
      <<"f", "c", "0", "0", ":", ":", ":", "1">>,
      <<"1", "0", ".", "0", ".", "0", ".", "1", "/", "8">> }
IPValues ==
    { [form |-> "v4", bytes |-> b, left |-> l, right |-> r] :
        b \in IPv4Bytes, l \in Pads, r \in Pads }
    \cup { [form |-> "mapped", bytes |-> b, left |-> l, right |-> r] :
        b \in IPv4Bytes, l \in Pads, r \in Pads }
    \cup { [form |-> "v6", first |-> g.first, last |-> g.last, left |-> l, right |-> r] :
        g \in IPv6Groups, l \in Pads, r \in Pads }
    \cup { [form |-> "none", text |-> t, left |-> l, right |-> r] :
        t \in NoAddress, l \in Pads, r \in Pads }
IPVersionLists ==
    { <<>>, <<S_IPv4>>, <<S_IPv6>>, <<S_IPv4, S_IPv6>>, <<S_ipv4>>,
      <<<<"I", "P", "v", "5">>>> }

Plugins_IPAddress ==
    /\ calls["p1"].pc = "idle"
    /\ \E versions \in IPVersionLists, mustBePrivate \in BOOLEAN,
          d \in IPValues, key \in PluginCallKeys :
        LET p == [type |-> "IPAddress", Key |-> PluginKey,
                  AllowedIPVersions |-> versions, MustBePrivate |-> mustBePrivate]
        IN \E value \in {RenderIP(d)} :
           calls' = [calls EXCEPT !["p1"] =
               PluginCall(p, key, value, [value |-> d], Validate(p, key, value))]
    /\ UNCHANGED validators

\* URLValidationPlugin: an absolute URL is described by its scheme (a word
\* and its casing), its host and its path, and written scheme "://" host
\* path, with white space around it in some; the other texts are listed
\* with what is wrong with them
S_api_example_com ==
    <<"a", "p", "i", ".", "e", "x", "a", "m", "p", "l", "e", ".", "c", "o", "m">>

RenderURL(d) ==
    IF d.form = "none" THEN d.text
    ELSE d.left \o ApplyCase(d.scheme, d.casing) \o <<":", "/", "/">> \o d.host
             \o d.path \o d.right

URLSchemes == { S_https, <<"h", "t", "t", "p">>, <<"f", "t", "p">> }
URLHosts ==
    { S_api_example_com, <<"x">>,
      <<"l", "o", "c", "a", "l", "h", "o", "s", "t", ":", "8", "0">> }
URLPaths == { <<>>, <<"/", "v", "1">> }
NoURL ==
    { <<>>,                                              \* nothing
      S_api_example_com,                                 \* no scheme, no host
      <<"/", "v", "1">>,                                 \* a path only
      <<"/", "/", "x">>,                                 \* a host, no scheme
      <<"h", "t", "t", "p", "s", ":", "/", "/", "/", "v", "1">>,   \* no host
      <<"h", "t", "t", "p", "s", ":", "/", "/">>,                  \* no host
      <<"h", "t", "t", "p", "s", ":", "x">>,             \* opaque, no host
      <<":", "/", "/", "x">>,                            \* no scheme before ':'
      <<"1", "h", ":", "/", "/", "x">>,                  \* a scheme cannot start with a digit
      <<"h", "t", "t", "p", "s", ":", "/", "/", "x", " ", "y">>,   \* a blank in the host
      <<"h", "t", "t", "p", "s", ":", "/", "/", "x", ":", "y">>,   \* a port of letters
      <<"h", "t", "t", "p", "s", ":", "/", "/", "%", "z", "z">> }  \* a bad escape
URLValues ==
    { [form |-> "abs", scheme |-> s, casing |-> cs, host |-> h, path |-> pa,
       left |-> l, right |-> r] :
        s \in URLSchemes, cs \in {"lower", "upper"}, h \in URLHosts, pa \in URLPaths,
        l \in Pads, r \in Pads }
    \cup { [form |-> "none", text |-> t] : t \in NoURL }
URLSchemeLists ==
    { <<>>, <<S_https>>, <<<<"H", "T", "T", "P", "S">>>>,
      <<<<"h", "t", "t", "p">>, S_https>> }

Plugins_URL ==
    /\ calls["p1"].pc = "idle"
    /\ \E schemes \in URLSchemeLists, d \in URLValues, key \in PluginCallKeys :
        LET p == [type |-> "URL", Key |-> PluginKey, AllowedSchemes |-> schemes]
        IN \E value \in {RenderURL(d)} :
           calls' = [calls EXCEPT !["p1"] =
               PluginCall(p, key, value, [value |-> d], Validate(p, key, value))]
    /\ UNCHANGED validators

NextPlugins ==
    \/ Plugins_Boolean
    \/ Plugins_Enum
    \/ Plugins_IPAddress
    \/ Plugins_URL
    \/ Plugins_Return

SpecPlugins == InitPlugins /\ [][NextPlugins]_vars

\* the slot holds a returned call of a plugin of this type on its own key
ReturnedOwnKey(c, type) ==
    /\ calls[c].pc = "returned"
    /\ calls[c].plugin.type = type
    /\ calls[c].key = calls[c].plugin.Key

(***************************************************************************)
(* C16: on its own key, BooleanValidationPlugin.Validate handles the       *)
(* entry and accepts it exactly when the value, without the white space    *)
(* around it and in lower case, is the lower-case form of one of the       *)
(* accepted literals; otherwise it rejects with the "must be a boolean"    *)
(* reason.  With {true,false,1,0,yes,no}, "true" is accepted and "maybe"   *)
(* is rejected.                                                            *)
(***************************************************************************)
C16_Matches(c) ==
    \E i \in DOMAIN calls[c].described.accepted :
        LET a == calls[c].described.accepted[i]
        IN a.left = <<>> /\ a.right = <<>> /\ a.word = calls[c].described.value.word

C16_BooleanAcceptsExactly ==
    \A c \in DOMAIN calls :
        ReturnedOwnKey(c, "Boolean")
        => /\ calls[c].result.handled
           /\ calls[c].result.err.isNil <=> C16_Matches(c)
           /\ ~C16_Matches(c)
                  => calls[c].result.err.text
                         = <<"value for key ", calls[c].key,
                             " must be a boolean (accepted values: ", "%v", ")">>
           /\ calls[c].plugin.AcceptedValues = <<S_true, S_false, S_1, S_0, S_yes, S_no>>
                  => /\ calls[c].value = S_true => calls[c].result = Accepted
                     /\ calls[c].value = S_maybe => ~calls[c].result.err.isNil

\* the value " True\t" was accepted against the literal "TRUE"
C16_Witness ==
    \E c \in DOMAIN calls :
        /\ ReturnedOwnKey(c, "Boolean")
        /\ calls[c].value = <<" ", "T", "r", "u", "e", "\t">>
        /\ calls[c].plugin.AcceptedValues = << <<"T", "R", "U", "E">>, <<"O", "n">> >>
        /\ calls[c].result = Accepted

(***************************************************************************)
(* C17: on its own key, EnumValidationPlugin.Validate handles the entry    *)
(* and accepts it exactly when the value as it stands (white space         *)
(* included) is one of the allowed values: the same text when              *)
(* CaseSensitive is set, the same text up to the case of the letters when  *)
(* it is not; otherwise it rejects with the "must be one of" reason.       *)
(* With {DEVELOPMENT,STAGING,PRODUCTION} case-sensitive, "PRODUCTION" is   *)
(* accepted and "production" and "INVALID_ENV" are rejected.               *)
(***************************************************************************)
C17_Matches(c) ==
    \E i \in DOMAIN calls[c].described.allowed :
        LET a == calls[c].described.allowed[i]
            d == calls[c].described.value
        IN /\ a.word = d.word /\ a.left = d.left /\ a.right = d.right
           /\ calls[c].plugin.CaseSensitive => a.casing = d.casing

C17_EnumAcceptsExactly ==
    \A c \in DOMAIN calls :
        ReturnedOwnKey(c, "Enum")
        => /\ calls[c].result.handled
           /\ calls[c].result.err.isNil <=> C17_Matches(c)
           /\ ~C17_Matches(c)
                  => calls[c].result.err.text
                         = <<"value for key ", calls[c].key, " must be one of ", "%v">>
           /\ ( /\ calls[c].plugin.AllowedValues
                       = <<S_DEVELOPMENT, S_STAGING, S_PRODUCTION>>
                /\ calls[c].plugin.CaseSensitive )
                  => /\ calls[c].value = S_PRODUCTION => calls[c].result = Accepted
                     /\ calls[c].value \in {S_production, ApplyCase(S_invalid_env, "upper")}
                            => ~calls[c].result.err.isNil

\* "production" was rejected by the case-sensitive plugin for
\* {DEVELOPMENT,STAGING,PRODUCTION}
C17_Witness ==
    \E c \in DOMAIN calls :
        /\ ReturnedOwnKey(c, "Enum")
        /\ calls[c].plugin.AllowedValues = <<S_DEVELOPMENT, S_STAGING, S_PRODUCTION>>
        /\ calls[c].plugin.CaseSensitive
        /\ calls[c].value = S_production
        /\ ~calls[c].result.err.isNil

(***************************************************************************)
(* C18: on its own key, IPAddressValidationPlugin.Validate handles the     *)
(* entry and rejects it exactly when the value (without the white space    *)
(* around it) is no IP address, or versions are listed and none of them    *)
(* names the family of the address (IPv4 for an address with a four-byte   *)
(* form, IPv4-mapped ones included; IPv6 for the others), or MustBePrivate *)
(* is set and the address is in none of 10.0.0.0/8, 172.16.0.0/12,         *)
(* 192.168.0.0/16, ::1/128, fc00::/7.  The reason is that of the first of  *)
(* these checks that fails.  With MustBePrivate, "192.168.1.100" is        *)
(* accepted and "8.8.8.8" is rejected as not private.                      *)
(***************************************************************************)
C18_Family(d) == IF d.form \in {"v4", "mapped"} THEN "IPv4" ELSE "IPv6"

C18_Names(version, family) ==
    \/ family = "IPv4" /\ version \in {S_IPv4, S_ipv4}
    \/ family = "IPv6" /\ version \in {S_IPv6, S_ipv6}

C18_Private(d) ==
    IF d.form \in {"v4", "mapped"}
    THEN \/ d.bytes[1] = 10
         \/ d.bytes[1] = 172 /\ d.bytes[2] >= 16 /\ d.bytes[2] <= 31
         \/ d.bytes[1] = 192 /\ d.bytes[2] = 168
    ELSE \/ d.first = 0 /\ d.last = 1
         \/ d.first >= 64512 /\ d.first <= 65023

C18_Expected(c) ==
    LET d == calls[c].described.value
        p == calls[c].plugin
    IN IF d.form = "none" THEN <<" must be a valid IP address">>
       ELSE IF /\ p.AllowedIPVersions # <<>>
               /\ ~\E i \in DOMAIN p.AllowedIPVersions :
                      C18_Names(p.AllowedIPVersions[i], C18_Family(d))
       THEN <<" must be one of the following IP versions: ", "%v">>
       ELSE IF p.MustBePrivate /\ ~C18_Private(d)
       THEN <<" must be a private IP address">>
       ELSE <<>>

C18_IPRejectsExactly ==
    \A c \in DOMAIN calls :
        ReturnedOwnKey(c, "IPAddress")
        => /\ calls[c].result.handled
           /\ calls[c].result.err.isNil <=> C18_Expected(c) = <<>>
           /\ C18_Expected(c) # <<>>
                  => calls[c].result.err.text
                         = <<"value for key ", calls[c].key>> \o C18_Expected(c)
           /\ calls[c].plugin.MustBePrivate /\ calls[c].plugin.AllowedIPVersions = <<>>
                  => /\ calls[c].value
                            = <<"1", "9", "2", ".", "1", "6", "8", ".", "1", ".", "1", "0", "0">>
                        => calls[c].result = Accepted
                     /\ calls[c].value = <<"8", ".", "8", ".", "8", ".", "8">>
                        => Contains(calls[c].result.err, " must be a private IP address")

\* "8.8.8.8" was rejected as not private by a plugin that allows IPv4 and
\* IPv6
C18_Witness ==
    \E c \in DOMAIN calls :
        /\ ReturnedOwnKey(c, "IPAddress")
        /\ calls[c].plugin.MustBePrivate
        /\ calls[c].plugin.AllowedIPVersions = <<S_IPv4, S_IPv6>>
        /\ calls[c].value = <<"8", ".", "8", ".", "8", ".", "8">>
        /\ calls[c].result.err.text
               = <<"value for key ", calls[c].key, " must be a private IP address">>

(***************************************************************************)
(* C19: on its own key, URLValidationPlugin.Validate handles the entry and *)
(* rejects it exactly when the value does not parse as a URL with a scheme *)
(* and a host, or schemes are listed and the scheme of the URL equals none *)
(* of them ignoring case.  A value written scheme "://" host path is such  *)
(* a URL unless white space precedes it, follows its host, or a tab        *)
(* follows its path.  With the schemes [https], "https://api.example.com"  *)
(* is accepted, and "http://api.example.com" and "ftp://x" are rejected    *)
(* for their scheme.                                                       *)
(***************************************************************************)
C19_IsAbsoluteURL(d) ==
    /\ d.form = "abs"
    /\ d.left = <<>>
    /\ d.right # <<>> => d.path # <<>> /\ \A i \in DOMAIN d.right : d.right[i] = " "

C19_SchemeAllowed(c) ==
    \/ calls[c].plugin.AllowedSchemes = <<>>
    \/ \E i \in DOMAIN calls[c].plugin.AllowedSchemes, casing \in {"lower", "upper"} :
           calls[c].plugin.AllowedSchemes[i]
               = ApplyCase(calls[c].described.value.scheme, casing)

C19_URLRejectsExactly ==
    \A c \in DOMAIN calls :
        ReturnedOwnKey(c, "URL")
        => /\ calls[c].result.handled
           /\ calls[c].result.err.isNil
                  <=> C19_IsAbsoluteURL(calls[c].described.value) /\ C19_SchemeAllowed(c)
           /\ ~C19_IsAbsoluteURL(calls[c].described.value)
                  => calls[c].result.err.text
                         = <<"value for key ", calls[c].key, " must be a valid URL">>
           /\ C19_IsAbsoluteURL(calls[c].described.value) /\ ~C19_SchemeAllowed(c)
                  => /\ calls[c].result.err.text
                            = <<"URL scheme for key ", calls[c].key, " must be one of ", "%v">>
                     /\ calls[c].result.err.list = calls[c].plugin.AllowedSchemes
           /\ calls[c].plugin.AllowedSchemes = <<S_https>>
                  => /\ calls[c].value = S_https \o <<":", "/", "/">> \o S_api_example_com
                        => calls[c].result = Accepted
                     /\ calls[c].value \in
                            { <<"h", "t", "t", "p", ":", "/", "/">> \o S_api_example_com,
                              <<"f", "t", "p", ":", "/", "/", "x">> }
                        => /\ Contains(calls[c].result.err, " must be one of ")
                           /\ calls[c].result.err.list = <<S_https>>

\* "ftp://x" was rejected for its scheme by a plugin that allows https only
C19_Witness ==
    \E c \in DOMAIN calls :
        /\ ReturnedOwnKey(c, "URL")
        /\ calls[c].plugin.AllowedSchemes = <<S_https>>
        /\ calls[c].value = <<"f", "t", "p", ":", "/", "/", "x">>
        /\ Contains(calls[c].result.err, " must be one of ")
        /\ calls[c].result.err.list = <<S_https>>

(***************************************************************************)
(* C21: for a key different from its Key, the Validate of each of the four *)
(* built-in plugin types returns (false, nil), whatever the value.         *)
(***************************************************************************)
C21_NotApplicableOffKey ==
    \A c \in DOMAIN calls :
        /\ calls[c].pc = "returned"
        /\ calls[c].plugin.type \in {"Boolean", "Enum", "IPAddress", "URL"}
        /\ calls[c].key # calls[c].plugin.Key
        => /\ ~calls[c].result.handled
           /\ calls[c].result.err.isNil

\* a Boolean plugin was given "maybe", which it rejects for its own key,
\* for another key
C21_Witness ==
    \E c \in DOMAIN calls :
        /\ calls[c].pc = "returned"
        /\ calls[c].plugin.type = "Boolean"
        /\ calls[c].key = "OTHER_KEY"
        /\ calls[c].value = S_maybe
        /\ Rejects(calls[c].plugin, calls[c].plugin.Key, calls[c].value)
        /\ calls[c].result = NotHandled

(***************************************************************************)
(* SpecOverlap: one Validator whose Config.Plugins holds plugins for keys  *)
(* that other plugins of the registry are configured for as well, and one  *)
(* caller that calls ValidateDotEnv on it again and again.                 *)
(***************************************************************************)
\* the caller's plugins, an Enum plugin that rejects a value the built-in
\* Enum plugin accepts, and two plugins of the caller's own making that
\* refuse CUSTOM_KEY, one returning handled = true and one handled = false
OverlapPlugins ==
    CallerPlugins \cup
        { [type |-> "Enum", Key |-> "ENVIRONMENT", AllowedValues |-> <<S_staging>>,
           CaseSensitive |-> TRUE] }
        \cup { [type |-> "Custom", Key |-> "CUSTOM_KEY", Handled |-> h] : h \in BOOLEAN }

InitOverlap ==
    /\ \E n \in 1..MaxPlugins : \E ps \in [1..n -> OverlapPlugins] :
        validators = [v \in {"v1"} |->
            NewValidator([RequireQuotes |-> FALSE, Verbose |-> FALSE, Logger |-> "nil",
                          Plugins |-> ps], {})]
    /\ calls = [c \in {"c1"} |-> IdleCall]

Overlap_Load == Load("c1", "v1")
Overlap_Entry == Entry("c1")
Overlap_Missing == Missing("c1")
Overlap_Return == Return("c1")

NextOverlap ==
    \/ Overlap_Load
    \/ Overlap_Entry
    \/ Overlap_Missing
    \/ Overlap_Return

SpecOverlap == InitOverlap /\ [][NextOverlap]_vars

(***************************************************************************)
(* C22: when two plugins of the registry claim the entry just processed,   *)
(* the scan does not end at the earlier one for having accepted the entry: *)
(* the later one is invoked as well unless a plugin before it rejects the  *)
(* entry, and the call returns the error of the first plugin, in registry  *)
(* order, that rejects it.                                                 *)
(***************************************************************************)
\* the entry that call c processed last
C22_Key(c) == calls[c].key
C22_Value(c) == calls[c].envVars[calls[c].key]

\* no plugin of the registry of call c before the i-th rejects that entry
C22_NoneRejectsBefore(c, i) ==
    \A h \in 1..(i - 1) : ~Rejects(Registry(c)[h], C22_Key(c), C22_Value(c))

C22_BothInvokedFirstRejectionReturned ==
    \A c \in DOMAIN calls :
        InCall(c) /\ calls[c].key # ""
        => \A i, j \in DOMAIN Registry(c) :
               /\ i < j
               /\ Claims(Registry(c)[i], C22_Key(c), C22_Value(c))
               /\ Claims(Registry(c)[j], C22_Key(c), C22_Value(c))
               /\ calls[c].returned \in {"none", "content"}
               => /\ C22_NoneRejectsBefore(c, j) => calls[c].invoked >= j
                  /\ \A r \in {i, j} :
                         /\ Rejects(Registry(c)[r], C22_Key(c), C22_Value(c))
                         /\ C22_NoneRejectsBefore(c, r)
                         => /\ calls[c].invoked = r
                            /\ calls[c].returned = "content"
                            /\ calls[c].err
                                   = Validate(Registry(c)[r], C22_Key(c), C22_Value(c)).err

\* ENVIRONMENT=STAGING was accepted by the built-in Enum plugin and then
\* rejected by the caller's Enum plugin, whose error was returned
C22_Witness ==
    \E c \in DOMAIN calls :
        /\ Done(c)
        /\ calls[c].returned = "content"
        /\ calls[c].key = "ENVIRONMENT"
        /\ C22_Value(c) = S_STAGING
        /\ Validate(Registry(c)[2], "ENVIRONMENT", S_STAGING) = Accepted
        /\ calls[c].invoked = 5
        /\ Rejecter(c).type = "Enum"
        /\ calls[c].err = Validate(Registry(c)[5], "ENVIRONMENT", S_STAGING).err

(***************************************************************************)
(* C23: the step that processes an entry whose key is not a key of the     *)
(* requiredKeys map leaves the map as it is, and no step of a              *)
(* ValidateDotEnv call adds a key to the map or removes one: the keys of   *)
(* the map are those NewValidator was given.                               *)
(***************************************************************************)
\* this step is an iteration of the range of call c
C23_EntryStep(c) ==
    calls[c].pc = "loop" /\ calls'[c].processed # calls[c].processed

C23_UnrequiredKeyIsNoOp ==
    [][ /\ \A c \in DOMAIN calls :
              C23_EntryStep(c) /\ calls'[c].key \notin Required(c)
              => validators'[calls[c].v].requiredKeys = Ledger(c)
        /\ calls' # calls
              => \A v \in DOMAIN validators :
                     DOMAIN validators'[v].requiredKeys = DOMAIN validators[v].requiredKeys
      ]_vars

\* an entry whose key is not required was processed by a Validator with a
\* required key that an earlier entry had marked
C23_Witness ==
    \E c \in DOMAIN calls :
        /\ calls[c].pc = "loop"
        /\ calls[c].key # ""
        /\ calls[c].key \notin Required(c)
        /\ \E k \in Required(c) : Ledger(c)[k]
        /\ \E k \in Required(c) : ~Ledger(c)[k]

(***************************************************************************)
(* C24: the flag of every required key is false when the Validator is      *)
(* constructed.  A step of a ValidateDotEnv call never takes a flag from   *)
(* true to false, and takes a flag from false to true only when it         *)
(* processes an entry with that key; the flag is set before the plugins    *)
(* are invoked on the entry, so it is true after that step even when a     *)
(* plugin rejected the entry.                                              *)
(***************************************************************************)
C24_FlagsOnlyRise ==
    /\ \A v \in DOMAIN validators : \A k \in DOMAIN validators[v].requiredKeys :
           ~validators[v].requiredKeys[k]
    /\ [][ /\ calls' = calls
              => \A v \in DOMAIN validators :
                     validators'[v] # validators[v]
                     => \A k \in DOMAIN validators'[v].requiredKeys :
                            ~validators'[v].requiredKeys[k]
           /\ calls' # calls
              => \A v \in DOMAIN validators : \A k \in DOMAIN validators[v].requiredKeys :
                     /\ validators[v].requiredKeys[k] => validators'[v].requiredKeys[k]
                     /\ ~validators[v].requiredKeys[k] /\ validators'[v].requiredKeys[k]
                        => \E c \in DOMAIN calls :
                               /\ C23_EntryStep(c)
                               /\ calls[c].v = v
                               /\ calls'[c].key = k
           /\ \A c \in DOMAIN calls :
                  C23_EntryStep(c) /\ calls'[c].key \in Required(c)
                  => validators'[calls[c].v].requiredKeys[calls'[c].key]
         ]_vars

\* the entry of a required key was rejected by a plugin, and the key is
\* marked
C24_Witness ==
    \E c \in DOMAIN calls :
        /\ Done(c)
        /\ calls[c].returned = "content"
        /\ calls[c].key \in Required(c)
        /\ Ledger(c)[calls[c].key]
        /\ \E k \in Required(c) : ~Ledger(c)[k]

(***************************************************************************)
(* SpecHeap: NewValidator with the identity of what it allocates.  The     *)
(* heap holds the plugin instances (an interface value of a registry is    *)
(* the address of one) and the backing arrays of the slices; a slice is    *)
(* its array and its length, and the capacity is the length of the array.  *)
(* The caller builds one Config.Plugins slice, possibly with spare         *)
(* capacity, and constructs Validators with it or with a nil slice; both   *)
(* Validator variables may be given the same slice.  Here calls holds the  *)
(* caller's side: the heap, the slice and the number of constructions.     *)
(***************************************************************************)
MaxConstructs == 3

NilSlice == [array |-> 0, len |-> 0]
EmptyHeap == [objects |-> <<>>, arrays |-> <<>>]

Cap(heap, s) == IF s.array = 0 THEN 0 ELSE Len(heap.arrays[s.array])
Elements(heap, s) == IF s.array = 0 THEN <<>> ELSE SubSeq(heap.arrays[s.array], 1, s.len)

\* append(s, elems...): the elements are written behind the slice in its
\* array when the capacity allows it; else they go with a copy of the
\* slice into a new array, of twice the old capacity or of the length
\* needed, whichever is more (0 marks a slot never written)
goAppend(heap, s, elems) ==
    IF s.len + Len(elems) <= Cap(heap, s)
    THEN IF elems = <<>> THEN [heap |-> heap, slice |-> s]
         ELSE [heap |-> [heap EXCEPT !.arrays[s.array] =
                            [i \in DOMAIN @ |->
                                IF i > s.len /\ i <= s.len + Len(elems)
                                THEN elems[i - s.len] ELSE @[i]]],
               slice |-> [s EXCEPT !.len = @ + Len(elems)]]
    ELSE LET needed == s.len + Len(elems)
             newcap == IF 2 * Cap(heap, s) > needed THEN 2 * Cap(heap, s) ELSE needed
             all == Elements(heap, s) \o elems
         IN [heap |-> [heap EXCEPT !.arrays =
                          Append(@, [i \in 1..newcap |->
                                        IF i <= needed THEN all[i] ELSE 0])],
             slice |-> [array |-> Len(heap.arrays) + 1, len |-> needed]]

\* &T{...} and append(slice, it): a new instance, and its address appended
AppendNew(at, plugin) ==
    goAppend([at.heap EXCEPT !.objects = Append(@, plugin)], at.slice,
             <<Len(at.heap.objects) + 1>>)

\* a variant of Heap_loadBuiltInPlugins with a defect: the slice of the
\* first call is kept in a package-level variable and returned by every
\* later call
Heap_loadBuiltInPlugins_PackageLevel(heap) ==
    IF heap.objects # <<>> THEN [heap |-> heap, slice |-> [array |-> 3, len |-> 4]]
    ELSE AppendNew(AppendNew(AppendNew(AppendNew([heap |-> heap, slice |-> NilSlice],
             loadBuiltInPlugins[1]), loadBuiltInPlugins[2]), loadBuiltInPlugins[3]),
             loadBuiltInPlugins[4])

\* lines 47-78: four instances are allocated and appended to a nil slice
Heap_loadBuiltInPlugins(heap) ==
    AppendNew(AppendNew(AppendNew(AppendNew([heap |-> heap, slice |-> NilSlice],
        loadBuiltInPlugins[1]), loadBuiltInPlugins[2]), loadBuiltInPlugins[3]),
        loadBuiltInPlugins[4])

\* lines 27-41, with config.Plugins a slice of the heap: [heap, validator]
Heap_NewValidator(heap, config, requiredKeys) ==
    LET builtInPlugins == Heap_loadBuiltInPlugins(heap)
        allPlugins == goAppend(builtInPlugins.heap, builtInPlugins.slice,
                               Elements(builtInPlugins.heap, config.Plugins))
    IN [heap |-> allPlugins.heap,
        validator |-> [config |-> config,
                       requiredKeys |-> [k \in requiredKeys |-> FALSE],
                       plugins |-> allPlugins.slice]]

Heap_Config(slice) ==
    [RequireQuotes |-> FALSE, Verbose |-> FALSE, Logger |-> "nil", Plugins |-> slice]

\* the caller has no slice yet; v1 and v2 were constructed with a nil
\* Config.Plugins
InitHeap ==
    LET first == Heap_NewValidator(EmptyHeap, Heap_Config(NilSlice), {})
        second == Heap_NewValidator(first.heap, Heap_Config(NilSlice), {})
    IN /\ validators = [v \in {"v1", "v2"} |->
                           IF v = "v1" THEN first.validator ELSE second.validator]
       /\ calls = [caller |-> [heap |-> second.heap, slice |-> NilSlice, constructs |-> 0]]

\* the caller builds its plugin slice: make([]ValidationPlugin, 0, n + spare)
\* and an append of each of its plugins, newly allocated
Heap_MakePlugins ==
    /\ calls["caller"].slice = NilSlice
    /\ \E n \in 1..MaxPlugins, spare \in {0, 1} : \E ps \in [1..n -> CallerPlugins] :
        LET first == Len(calls["caller"].heap.objects)
            array == Len(calls["caller"].heap.arrays) + 1
        IN calls' = [calls EXCEPT
               !["caller"].heap.objects = @ \o ps,
               !["caller"].heap.arrays =
                   Append(@, [i \in 1..(n + spare) |-> IF i <= n THEN first + i ELSE 0]),
               !["caller"].slice = [array |-> array, len |-> n]]
    /\ UNCHANGED validators

\* validator = NewValidator(Config{Plugins: slice}, requiredKeys), with the
\* caller's slice or a nil slice
Heap_Construct(v) ==
    /\ calls["caller"].constructs < MaxConstructs
    /\ \E slice \in {NilSlice, calls["caller"].slice}, requiredKeys \in {{}, {"API_URL"}} :
        \E new \in {Heap_NewValidator(calls["caller"].heap, Heap_Config(slice), requiredKeys)} :
            /\ validators' = [validators EXCEPT ![v] = new.validator]
            /\ calls' = [calls EXCEPT !["caller"].heap = new.heap,
                                      !["caller"].constructs = @ + 1]

NextHeap ==
    \/ Heap_MakePlugins
    \/ \E v \in DOMAIN validators : Heap_Construct(v)

SpecHeap == InitHeap /\ [][NextHeap]_vars

(***************************************************************************)
(* C25: the built-in plugins are allocated by each NewValidator call:      *)
(* no built-in plugin instance is in the registries of two Validators;     *)
(* constructing a Validator leaves the registry of the other Validator,    *)
(* its slice, its instances and their fields, as it was; and it leaves     *)
(* the caller's Config.Plugins slice, its backing array and the instances  *)
(* in it as they were.                                                     *)
(***************************************************************************)
\* the addresses in the registry of Validator v, and the instances there
C25_Addresses(v, heap) == Elements(heap, v.plugins)
C25_Instances(v, heap) ==
    [i \in DOMAIN C25_Addresses(v, heap) |-> heap.objects[C25_Addresses(v, heap)[i]]]

\* the addresses of the built-in plugins of Validator v
C25_BuiltIns(v, heap) ==
    {C25_Addresses(v, heap)[i] : i \in 1..Len(loadBuiltInPlugins)}

C25_NoInstanceShared ==
    C25_BuiltIns(validators["v1"], calls["caller"].heap)
        \cap C25_BuiltIns(validators["v2"], calls["caller"].heap) = {}

C25_ConstructionFrame ==
    \A v, w \in DOMAIN validators :
        v # w /\ validators'[v] # validators[v]
        => /\ validators'[w] = validators[w]
           /\ C25_Addresses(validators[w], calls'["caller"].heap)
                  = C25_Addresses(validators[w], calls["caller"].heap)
           /\ C25_Instances(validators[w], calls'["caller"].heap)
                  = C25_Instances(validators[w], calls["caller"].heap)
           /\ calls'["caller"].slice = calls["caller"].slice
           /\ \A a \in DOMAIN calls["caller"].heap.arrays :
                  a = calls["caller"].slice.array
                  => calls'["caller"].heap.arrays[a] = calls["caller"].heap.arrays[a]
           /\ \A o \in DOMAIN calls["caller"].heap.objects :
                  calls'["caller"].heap.objects[o] = calls["caller"].heap.objects[o]

C25_DefaultsPerValidator ==
    /\ []C25_NoInstanceShared
    /\ [][C25_ConstructionFrame]_vars

\* both Validators were constructed with the caller's slice of two plugins,
\* which has room for a third
C25_Witness ==
    /\ calls["caller"].slice.len = 2
    /\ Cap(calls["caller"].heap, calls["caller"].slice) = 3
    /\ validators["v1"].config.Plugins = calls["caller"].slice
    /\ validators["v2"].config.Plugins = calls["caller"].slice
    /\ validators["v1"].plugins.len = 6
    /\ validators["v2"].plugins.len = 6
    /\ validators["v1"].plugins.array # validators["v2"].plugins.array

(***************************************************************************)
(* C26: two runs on the same mapping, with the same required keys and      *)
(* registry and each with a fresh ledger, that iterate over the mapping in *)
(* any two orders either both return nil, or both return a content         *)
(* violation, or both return the missing-keys error with the same set of   *)
(* keys.  Which of the three it is depends on the mapping alone: a content *)
(* violation when a plugin rejects some entry, else the missing-keys error *)
(* when a required key is absent, else nil.                                *)
(***************************************************************************)
C26_KindOf(c) ==
    IF Rejectable(c) # {} THEN "content"
    ELSE IF Absent(c) # {} THEN "missing"
    ELSE "nil"

C26_KindIndependentOfOrder ==
    (Done("c1") /\ Done("c2") /\ Loaded("c1") /\ Loaded("c2"))
    => /\ \/ calls["c1"].returned = "nil" /\ calls["c2"].returned = "nil"
          \/ calls["c1"].returned = "content" /\ calls["c2"].returned = "content"
          \/ /\ calls["c1"].returned = "missing" /\ calls["c2"].returned = "missing"
             /\ ListedKeys(calls["c1"].err) = ListedKeys(calls["c2"].err)
       /\ \A c \in {"c1", "c2"} : calls[c].returned = C26_KindOf(c)

\* the two runs met the entries in different orders: each returned the
\* violation of another key, with a required key absent from the mapping
C26_Witness ==
    /\ Done("c1") /\ Done("c2")
    /\ calls["c1"].returned = "content" /\ calls["c2"].returned = "content"
    /\ calls["c1"].key = "API_URL" /\ calls["c2"].key = "ENVIRONMENT"
    /\ Absent("c1") # {}

(***************************************************************************)
(* C27: the error alone decides.  When the first plugin of the registry to *)
(* return an error for the entry just processed returns it with            *)
(* handled = false, the call ends there with that error, as it does for    *)
(* handled = true; and the call ends as it would with a registry in which  *)
(* the caller's own plugins return the other value of handled.             *)
(***************************************************************************)
\* the registry of call c with the other Handled in the caller's own plugins
C27_OtherHandled(c) ==
    [i \in DOMAIN Registry(c) |->
        IF Registry(c)[i].type = "Custom"
        THEN [Registry(c)[i] EXCEPT !.Handled = ~@]
        ELSE Registry(c)[i]]

C27_ErrorAloneDecides ==
    \A c \in DOMAIN calls :
        InCall(c) /\ calls[c].key # "" /\ calls[c].returned \in {"none", "content"}
        => /\ \A i \in DOMAIN Registry(c) :
                  /\ Rejects(Registry(c)[i], C22_Key(c), C22_Value(c))
                  /\ C22_NoneRejectsBefore(c, i)
                  => /\ Done(c)
                     /\ calls[c].returned = "content"
                     /\ calls[c].invoked = i
                     /\ calls[c].err = Validate(Registry(c)[i], C22_Key(c), C22_Value(c)).err
           /\ \A i \in DOMAIN Registry(c) :
                  Rejects(Registry(c)[i], C22_Key(c), C22_Value(c))
                  <=> Rejects(C27_OtherHandled(c)[i], C22_Key(c), C22_Value(c))
           /\ calls[c].returned = "content"
                  => calls[c].err
                         = Validate(C27_OtherHandled(c)[calls[c].invoked],
                                    C22_Key(c), C22_Value(c)).err

\* the call returned the error that the caller's plugin returned with
\* handled = false
C27_Witness ==
    \E c \in DOMAIN calls :
        /\ Done(c)
        /\ calls[c].returned = "content"
        /\ calls[c].key = "CUSTOM_KEY"
        /\ ~Validate(Rejecter(c), calls[c].key, calls[c].envVars[calls[c].key]).handled
        /\ calls[c].err = Validate(Rejecter(c), calls[c].key, calls[c].envVars[calls[c].key]).err
        /\ Contains(calls[c].err, " is refused")

(***************************************************************************)
(* C28: when loadEnvFile returns an error, ValidateDotEnv returns an error *)
(* that wraps it ("failed to load .env file: " and the loader's error),    *)
(* having invoked no plugin and processed no entry, and the step leaves    *)
(* the flags of the requiredKeys map and the registry as they were.        *)
(***************************************************************************)
C28_LoadFailureStep ==
    \A c \in DOMAIN calls :
        calls[c].pc = "idle" /\ calls'[c].returned = "load"
        => /\ calls'[c].pc = "done"
           /\ calls'[c].err.text = <<"failed to load .env file: ", "%w">> \o LoadError.text
           /\ calls'[c].invoked = 0
           /\ calls'[c].processed = {}
           /\ validators'[calls'[c].v].requiredKeys = validators[calls'[c].v].requiredKeys
           /\ validators'[calls'[c].v].plugins = validators[calls'[c].v].plugins

C28_LoadFailureLeavesValidator ==
    /\ [](\A c \in DOMAIN calls :
              calls[c].returned = "load" => Done(c) /\ calls[c].invoked = 0)
    /\ [][C28_LoadFailureStep]_vars

\* the load failed in a call on a Validator that an earlier call had left
\* with one key marked and one not
C28_Witness ==
    \E c \in DOMAIN calls :
        /\ Done(c)
        /\ calls[c].returned = "load"
        /\ \E k \in Required(c) : Ledger(c)[k]
        /\ \E k \in Required(c) : ~Ledger(c)[k]

(***************************************************************************)
(* C29: what an empty parameter list means.  For its own key, a Boolean    *)
(* plugin without accepted values and an Enum plugin without allowed       *)
(* values reject every value; a URL plugin without allowed schemes accepts *)
(* every URL with a scheme and a host; an IP plugin without allowed        *)
(* versions rejects no address for its family, and accepts every address   *)
(* when MustBePrivate is not set; and an IP plugin with versions of which  *)
(* none is "ipv4" or "ipv6" in any casing rejects every value, an address  *)
(* for its version.                                                        *)
(***************************************************************************)
C29_VersionError(c) ==
    <<"value for key ", calls[c].key, " must be one of the following IP versions: ", "%v">>

C29_NamesNoFamily(versions) ==
    /\ versions # <<>>
    /\ \A i \in DOMAIN versions : versions[i] \notin {S_IPv4, S_ipv4, S_IPv6, S_ipv6}

C29_EmptyListMeaning ==
    \A c \in DOMAIN calls :
        /\ ReturnedOwnKey(c, "Boolean") /\ calls[c].plugin.AcceptedValues = <<>>
               => ~calls[c].result.err.isNil
        /\ ReturnedOwnKey(c, "Enum") /\ calls[c].plugin.AllowedValues = <<>>
               => ~calls[c].result.err.isNil
        /\ ReturnedOwnKey(c, "URL") /\ calls[c].plugin.AllowedSchemes = <<>>
               /\ C19_IsAbsoluteURL(calls[c].described.value)
               => calls[c].result = Accepted
        /\ ReturnedOwnKey(c, "IPAddress") /\ calls[c].plugin.AllowedIPVersions = <<>>
               /\ calls[c].described.value.form # "none"
               => /\ calls[c].result.err.text # C29_VersionError(c)
                  /\ ~calls[c].plugin.MustBePrivate => calls[c].result = Accepted
        /\ ReturnedOwnKey(c, "IPAddress")
               /\ C29_NamesNoFamily(calls[c].plugin.AllowedIPVersions)
               => /\ ~calls[c].result.err.isNil
                  /\ calls[c].described.value.form # "none"
                         => calls[c].result.err.text = C29_VersionError(c)

\* an IP plugin that allows "IPv5" only rejected 192.168.1.100 for its
\* version
C29_Witness ==
    \E c \in DOMAIN calls :
        /\ ReturnedOwnKey(c, "IPAddress")
        /\ calls[c].plugin.AllowedIPVersions = <<<<"I", "P", "v", "5">>>>
        /\ calls[c].value
               = <<"1", "9", "2", ".", "1", "6", "8", ".", "1", ".", "1", "0", "0">>
        /\ calls[c].result.err.text = C29_VersionError(c)

(***************************************************************************)
(* C30: the flag of a required key of a Validator is true exactly when a   *)
(* ValidateDotEnv call on that Validator, the current one or an earlier    *)
(* one, has processed an entry with that key.  Step by step: NewValidator  *)
(* leaves every flag false; after a step of a call a flag is true exactly  *)
(* when it was true before or the step processed an entry with its key on  *)
(* that Validator; so the marks of a call outlast its return, whether it   *)
(* returns nil, a content violation, a missing-keys error or a load        *)
(* failure.                                                                *)
(***************************************************************************)
\* this step processes an entry with key k in a call on Validator v
C30_Processes(v, k) ==
    \E c \in DOMAIN calls :
        /\ calls[c].pc = "loop"
        /\ calls[c].v = v
        /\ k \in calls'[c].processed \ calls[c].processed

C30_Step ==
    /\ calls' = calls
          => \A v \in DOMAIN validators :
                 validators'[v] # validators[v]
                 => \A k \in DOMAIN validators'[v].requiredKeys :
                        validators'[v].requiredKeys[k] = FALSE
    /\ calls' # calls
          => \A v \in DOMAIN validators :
                 /\ DOMAIN validators'[v].requiredKeys = DOMAIN validators[v].requiredKeys
                 /\ \A k \in DOMAIN validators[v].requiredKeys :
                        validators'[v].requiredKeys[k]
                            = (validators[v].requiredKeys[k] \/ C30_Processes(v, k))

C30_FlagIffProcessed ==
    /\ \A v \in DOMAIN validators : \A k \in DOMAIN validators[v].requiredKeys :
           validators[v].requiredKeys[k] = FALSE
    /\ [](\A c \in DOMAIN calls :
              InCall(c) => \A k \in calls[c].processed \cap Required(c) : Ledger(c)[k])
    /\ [][C30_Step]_vars

\* a call ended in a content violation for a required key; that key is
\* marked, and so is a required key that is not in the mapping of this
\* call: an earlier call on the Validator processed it
C30_Witness ==
    \E c \in DOMAIN calls :
        /\ Done(c)
        /\ calls[c].returned = "content"
        /\ calls[c].key \in Required(c)
        /\ Ledger(c)[calls[c].key]
        /\ \E k \in Required(c) \ DOMAIN calls[c].envVars : Ledger(c)[k]

=============================================================================
